---- MODULE Spec2Model ----
(***************************************************************************)
(* A model of the chat relay (app/routers/chat.py), the agent-host client  *)
(* (app/services/letta_service.py), the datastore accessor                 *)
(* (app/services/supabase_service.py) and the reverse proxy                *)
(* (app/routers/llm_proxy.py) of the AI chat platform backend.             *)
(*                                                                         *)
(* Encodings.  Python None is the string None where a string is expected,  *)
(* NoNumber where a number is expected and NoUsage where the usage dict is *)
(* expected.  A monetary cost is an integer number of thousandths, so that *)
(* Decimal arithmetic is exact integer arithmetic.                         *)
(***************************************************************************)
EXTENDS Integers, Sequences, FiniteSets, TLC

\* ------------------------------------------------------------------ bounds

\* The longest agent-host response body, in lines.
MaxLines == 2

\* The longest event sequence handed to the relay in the "interface" scenario.
MaxChunks == 3

\* The most reset-billing-key requests in one run.
MaxResets == 2

\* The longest Billing Gateway body, in chunks.
MaxBodyChunks == 2

\* The most rows of the message table when the history is read.
MaxHistory == 4

\* The most pages one client asks for in a row.
MaxPages == 6

\* --------------------------------------------------------- Python encodings

None == "None"

NoNumber == -1

NoUsage == [some |-> FALSE, total_tokens |-> 0, cost |-> 0]

Usage(tokens, cost) == [some |-> TRUE, total_tokens |-> tokens, cost |-> cost]

\* Python truthiness of a str-or-None value.
Truthy(s) == s # None /\ s # ""

\* ----------------------------------------------- agent host (environment)

\* One line of the agent host's event-stream body.  kind is
\*   "blank"     an empty line,
\*   "other"     a line without the "data: " prefix,
\*   "sentinel"  the line "data: [DONE]",
\*   "malformed" a data line whose payload is not JSON,
\*   "json"      a data line whose payload is a JSON object.
Line(kind, message_type, text, tokens, cost) ==
    [kind |-> kind, message_type |-> message_type, text |-> text,
     total_tokens |-> tokens, cost |-> cost]

AssistantLine(text) == Line("json", "assistant_message", text, 0, 0)

ReasoningLine(text) == Line("json", "reasoning_message", text, 0, 0)

ToolCallLine(name) == Line("json", "tool_call_message", name, 0, 0)

ToolReturnLine(text) == Line("json", "tool_return_message", text, 0, 0)

UsageLine(tokens, cost) == Line("json", "usage_statistics", "", tokens, cost)

UnknownLine == Line("json", "system_message", "x", 0, 0)

MalformedLine == Line("malformed", "", "", 0, 0)

SentinelLine == Line("sentinel", "", "", 0, 0)

BlankLine == Line("blank", "", "", 0, 0)

LineAlphabet ==
    {AssistantLine("Hel"), AssistantLine("lo"), AssistantLine(""),
     ReasoningLine("thinking"), ToolCallLine("search"), ToolReturnLine("ok"),
     UsageLine(12, 2), UsageLine(5, 0),
     UnknownLine, MalformedLine, SentinelLine}

RECURSIVE SeqsUpTo(_, _)
SeqsUpTo(S, n) ==
    IF n = 0 THEN {<<>>}
    ELSE LET shorter == SeqsUpTo(S, n - 1)
         IN  shorter \cup {Append(s, x) : s \in {t \in shorter : Len(t) = n - 1}, x \in S}

\* fault = NoNumber: the transport delivers every line.  fault = k >= 0: the
\* transport raises after k lines were delivered (k = 0 is also a failure to
\* connect).  A non-success status carries a body and no stream.
HostResponse(status, body, lines, fault) ==
    [status |-> status, body |-> body, lines |-> lines, fault |-> fault]

HostResponses ==
    {HostResponse(200, "", ls, f) :
        ls \in SeqsUpTo(LineAlphabet, MaxLines), f \in {NoNumber} \cup (0 .. MaxLines)}
    \cup {HostResponse(500, "boom", <<>>, NoNumber)}

\* ------------------------------------------------------------ Stream Event

Chunk(type, content, full_response, usage_stats) ==
    [type |-> type, content |-> content,
     full_response |-> full_response, usage_stats |-> usage_stats]

\* --------------------------------------------- LettaService.send_message

\* The event, if any, that one data line with a JSON object yields, given the
\* text accumulated before it (including this line's own content).
LineEvent(line, full_response) ==
    IF line.message_type = "assistant_message" /\ Truthy(line.text)
    THEN <<Chunk("message", line.text, full_response, NoUsage)>>
    ELSE IF line.message_type = "reasoning_message" /\ Truthy(line.text)
    THEN <<Chunk("reasoning", line.text, "", NoUsage)>>
    ELSE IF line.message_type = "tool_call_message"
    THEN <<Chunk("tool_call", "Tool: " \o line.text, "", NoUsage)>>
    ELSE IF line.message_type = "usage_statistics"
    THEN <<Chunk("usage", None, "", Usage(line.total_tokens, line.cost))>>
    ELSE <<>>

\* Variant: the generator goes on to its final yield after the error event.
FaultEvents_ThenDone(description) ==
    <<Chunk("error", description, "", NoUsage), Chunk("done", "", "", NoUsage)>>

\* What the except clause of send_message yields for a raised exception.
FaultEvents(description) == <<Chunk("error", description, "", NoUsage)>>

\* Variant: the done event carries no usage payload.
FinalEvents_NoUsage(full_response, usage_stats) ==
    <<Chunk("done", full_response, full_response, NoUsage)>>

\* What send_message yields once the line loop has ended.
FinalEvents(full_response, usage_stats) ==
    <<Chunk("done", full_response, full_response, usage_stats)>>

\* Variant: a line that does not parse ends the stream.
RECURSIVE ProcessLines_MalformedEnds(_, _, _, _, _)
ProcessLines_MalformedEnds(lines, i, fault, full_response, usage_stats) ==
    IF fault = i - 1 THEN FaultEvents("ReadError")
    ELSE IF i > Len(lines) THEN FinalEvents(full_response, usage_stats)
    ELSE LET line == lines[i]
         IN  IF line.kind \in {"blank", "other"}
             THEN ProcessLines_MalformedEnds(lines, i + 1, fault, full_response, usage_stats)
             ELSE IF line.kind \in {"sentinel", "malformed"}
             THEN FinalEvents(full_response, usage_stats)
             ELSE LET text == IF line.message_type = "assistant_message" /\ Truthy(line.text)
                              THEN full_response \o line.text ELSE full_response
                      usage == IF line.message_type = "usage_statistics"
                               THEN Usage(line.total_tokens, line.cost) ELSE usage_stats
                  IN  LineEvent(line, text)
                      \o ProcessLines_MalformedEnds(lines, i + 1, fault, text, usage)

RECURSIVE ProcessLines(_, _, _, _, _)
ProcessLines(lines, i, fault, full_response, usage_stats) ==
    IF fault = i - 1 THEN FaultEvents("ReadError")
    ELSE IF i > Len(lines) THEN FinalEvents(full_response, usage_stats)
    ELSE LET line == lines[i]
         IN  IF line.kind \in {"blank", "other", "malformed"}
             THEN ProcessLines(lines, i + 1, fault, full_response, usage_stats)
             ELSE IF line.kind = "sentinel"
             THEN FinalEvents(full_response, usage_stats)
             ELSE LET text == IF line.message_type = "assistant_message" /\ Truthy(line.text)
                              THEN full_response \o line.text ELSE full_response
                      usage == IF line.message_type = "usage_statistics"
                               THEN Usage(line.total_tokens, line.cost) ELSE usage_stats
                  IN  LineEvent(line, text)
                      \o ProcessLines(lines, i + 1, fault, text, usage)

\* Variant: the body is read as an event stream after the error event.
StatusEvents_ThenBody(host) ==
    <<Chunk("error", "Letta API error " \o ToString(host.status) \o ": " \o host.body,
            "", NoUsage)>>
    \o ProcessLines(<<AssistantLine(host.body)>>, 1, NoNumber, "", NoUsage)

\* if response.status_code != 200: yield the error event and return.
StatusEvents(host) ==
    <<Chunk("error", "Letta API error " \o ToString(host.status) \o ": " \o host.body,
            "", NoUsage)>>

\* The requests one call of send_message makes to the agent host: the one
\* client.stream(...) of its body, which no path repeats.
HostRequests(host) == 1

\* The whole sequence the generator yields for one response of the agent host.
SendMessage(host) ==
    IF host.status # 200
    THEN StatusEvents(host)
    ELSE ProcessLines(host.lines, 1, host.fault, "", NoUsage)

\* ------------------------------------------------------------------ state

VARIABLES
    environment,    \* settings.environment (never changes)
    scenario,       \* the setting the run is in (never changes)
    user_profiles,  \* datastore table user_profiles: user id -> profile
    messages,       \* datastore table messages, in insertion order
    usage_metrics,  \* datastore table usage_metrics, in insertion order
    req,            \* one record of handler-local state per client request
    ledger_calls,   \* history: the update_usage_metrics calls that returned
    proxy,          \* handler-local state of the reverse-proxy request
    gateway_calls,  \* history: the requests sent to the Billing Gateway
    gateway_keys,   \* Billing Gateway: the key valid for each user, and all issued
    reset           \* the reset-billing-key requests made and the last response

vars == <<environment, scenario, user_profiles, messages, usage_metrics, req, ledger_calls,
          proxy, gateway_calls, gateway_keys, reset>>

proxyVars == <<proxy, gateway_calls, gateway_keys, reset>>

Today == "today"

\* Settings.environment: "development" unless the deployment sets it.
Environments == {"development", "production"}

Users == {"u1", "u2", "u3", "u4"}

\* u3 has an agent and no billing key, u4 has a billing key and no agent.
InitialProfiles ==
    [u \in Users |->
        CASE u = "u1" -> [id |-> u, litellm_key |-> "sk-u1", letta_agent_id |-> "agent-1"]
          [] u = "u2" -> [id |-> u, litellm_key |-> "sk-u2", letta_agent_id |-> "agent-2"]
          [] u = "u3" -> [id |-> u, litellm_key |-> None, letta_agent_id |-> "agent-3"]
          [] OTHER    -> [id |-> u, litellm_key |-> "sk-u4", letta_agent_id |-> None]]

Transports == {"buffered", "sse", "ws"}

\* ------------------------------------------------------------- scenarios
\* "single":     one client, one turn, any agent-host response.
\* "concurrent": two clients at once, one turn each, short responses.
\* "interface":  one client, one turn; the agent-host client is replaced by
\*               any producer of a well-formed Stream Event sequence.
\* "session":    one client, short responses; a socket connection takes up to
\*               three inbound messages.
\* "disconnect": one client, short responses; a socket connection takes up to
\*               two inbound messages; the client may go away while the
\*               sequence is relayed.

Clients(s) == IF s = "concurrent" THEN {1, 2} ELSE {1}

Reqs == {1, 2}

ClientUsers(s, r) ==
    IF s = "concurrent" THEN (IF r = 1 THEN {"u1"} ELSE {"u1", "u2"})
    ELSE IF s = "single" THEN {"u1", "u4"}
    ELSE {"u1"}

ShortResponses ==
    {HostResponse(200, "", <<AssistantLine("Hel"), UsageLine(12, 2)>>, NoNumber),
     HostResponse(200, "", <<AssistantLine("lo"), UsageLine(5, 0)>>, NoNumber),
     HostResponse(200, "", <<AssistantLine("Hel")>>, 1)}

Hosts(s) == IF s \in {"concurrent", "session", "disconnect"} THEN ShortResponses ELSE HostResponses

NoHost == HostResponse(0, "", <<>>, NoNumber)

\* The Stream Events a producer may yield before its terminal event, and the
\* terminal events.
InnerChunks ==
    {Chunk("message", "Hel", "", NoUsage), Chunk("message", "", "", NoUsage),
     Chunk("reasoning", "thinking", "", NoUsage),
     Chunk("tool_call", "Tool: search", "", NoUsage),
     Chunk("tool_return", "ok", "", NoUsage),
     Chunk("usage", None, "", Usage(12, 2))}

TerminalChunks ==
    {Chunk("done", t, t, u) : t \in {"", "Hel", "Hello"}, u \in {NoUsage, Usage(12, 2)}}
    \cup {Chunk("error", "boom", "", NoUsage)}

WellFormedSequences ==
    {s \o <<t>> : s \in SeqsUpTo(InnerChunks, MaxChunks - 1), t \in TerminalChunks}

AgentSources(s) ==
    IF s = "interface"
    THEN {[host |-> NoHost, chunks |-> cs, requests |-> 0] : cs \in WellFormedSequences}
    ELSE {[host |-> h, chunks |-> SendMessage(h), requests |-> HostRequests(h)] :
             h \in Hosts(s)}

\* ------------------------------------------------------- request records

NoRow == [id |-> 0, total_messages |-> 0, total_tokens |-> 0, total_cost |-> 0]

NoResponse ==
    [status |-> 0, detail |-> "", agent_response |-> "", usage_stats |-> NoUsage,
     message |-> 0]

Failure(status, detail) ==
    [status |-> status, detail |-> detail, agent_response |-> "",
     usage_stats |-> NoUsage, message |-> 0]

\* No history was asked for: no query was made and no page was returned.
NoHistory ==
    [page_in |-> 0, page_size_in |-> 0, requests |-> 0, queries |-> <<>>,
     status |-> 0, detail |-> "", messages |-> <<>>, total |-> 0, page |-> 0,
     page_size |-> 0, has_next |-> FALSE, fetched |-> <<>>]

IdleRequest ==
    [pc |-> "idle", transport |-> "buffered", user |-> "u1", content |-> "",
     inbound |-> 0, agent_calls |-> {}, host_requests |-> 0, host |-> NoHost,
     chunks |-> <<>>, pos |-> 1, mark |-> 0,
     full_response |-> "", usage_stats |-> NoUsage, existing |-> NoRow,
     agent_message |-> 0, wire |-> <<>>, response |-> NoResponse,
     history |-> NoHistory]

\* The reverse proxy has no request in hand.
NoProfile == [id |-> None, litellm_key |-> None, letta_agent_id |-> None]

IdleProxy ==
    [pc |-> "idle", op |-> "completions", agent_id |-> "", scheme |-> "",
     credentials |-> "", stream |-> FALSE, user_profile |-> NoProfile,
     lookups |-> 0, status |-> 0, detail |-> "", body |-> <<>>, revoked |-> {},
     outcome |-> [kind |-> "none", status |-> 0, chunks |-> <<>>, after |-> 0,
                  text |-> ""],
     test |-> [agent_id |-> "", user_id |-> None, has_litellm_key |-> FALSE,
               litellm_key_prefix |-> None]]

\* The Billing Gateway holds the keys it issued at registration.
InitialKeys ==
    [valid |-> [u \in Users |-> InitialProfiles[u].litellm_key],
     issued |-> [u \in Users |-> {InitialProfiles[u].litellm_key} \ {None}]]

NoReset == [count |-> 0, user |-> None, status |-> 0, detail |-> "", new_key |-> None]

\* The keys the Billing Gateway has invalidated.
Revoked(keys) == UNION {keys.issued[u] \ {keys.valid[u]} : u \in Users}

\* The datastore as an earlier turn of u1 left it today.
EarlierMessages ==
    <<[id |-> 1, user_id |-> "u1", role |-> "user", content |-> "hi",
       tokens_used |-> NoNumber, cost |-> NoNumber, by |-> 0, turn |-> 1],
      [id |-> 2, user_id |-> "u1", role |-> "assistant", content |-> "Hello",
       tokens_used |-> 7, cost |-> 1, by |-> 0, turn |-> 1]>>

EarlierUsage ==
    <<[id |-> 1, user_id |-> "u1", date |-> Today, total_messages |-> 2,
       total_tokens |-> 7, total_cost |-> 1]>>

EarlierCalls ==
    <<[by |-> 0, turn |-> 1, user_id |-> "u1", messages_count |-> 2,
       tokens_used |-> 7, cost |-> 1]>>

InitIn(s) ==
    /\ environment \in Environments
    /\ scenario = s
    /\ user_profiles = InitialProfiles
    /\ \/ messages = <<>> /\ usage_metrics = <<>> /\ ledger_calls = <<>>
       \/ /\ s = "concurrent"
          /\ messages = EarlierMessages
          /\ usage_metrics = EarlierUsage
          /\ ledger_calls = EarlierCalls
    /\ req = [r \in Reqs |-> IdleRequest]
    /\ proxy = IdleProxy
    /\ gateway_calls = <<>>
    /\ gateway_keys = InitialKeys
    /\ reset = NoReset

Init == InitIn("single")

InitConcurrent == InitIn("concurrent")

InitInterface == InitIn("interface")

InitProxy == InitIn("proxy")

InitSession == InitIn("session")

InitDisconnect == InitIn("disconnect")

\* The credentials a profile may hold: none, the empty string, and keys of
\* five, ten, eleven and eighteen characters.
StoredKeys == {None, "", "sk-u1", "sk-1234567", "sk-12345678", "sk-123456789abcdef"}

\* "diagnostic": agent_id lookups of GET /llm-proxy/{agent_id}/test over
\* profiles holding any of the stored credentials.
InitDiagnostic ==
    /\ environment \in Environments
    /\ scenario = "diagnostic"
    /\ \E k1, k2 \in StoredKeys :
          user_profiles = [InitialProfiles EXCEPT !["u1"].litellm_key = k1,
                                                  !["u2"].litellm_key = k2]
    /\ messages = <<>> /\ usage_metrics = <<>> /\ ledger_calls = <<>>
    /\ req = [r \in Reqs |-> IdleRequest]
    /\ proxy = IdleProxy
    /\ gateway_calls = <<>>
    /\ gateway_keys = InitialKeys
    /\ reset = NoReset

\* The inbound socket messages one connection receives before the client leaves.
InboundPerConnection(s) ==
    IF s = "session" THEN 3 ELSE IF s = "disconnect" THEN 2 ELSE 1

\* -------------------------------------------------- SupabaseService (tables)

DatastoreError == "datastore error"

\* save_message: "cost": float(cost) if cost else None.
StoredCost(cost) == IF cost # NoNumber /\ cost # 0 THEN cost ELSE NoNumber

\* The row save_message inserts; by and turn record the request and the turn
\* the row was written for, and are not columns of the table.
MessageRow(id, user_id, role, content, tokens_used, cost, by, turn) ==
    [id |-> id, user_id |-> user_id, role |-> role, content |-> content,
     tokens_used |-> tokens_used, cost |-> StoredCost(cost), by |-> by, turn |-> turn]

\* Variant: the insert is issued twice.
SaveMessage_Twice(table, user_id, role, content, tokens_used, cost, by, turn) ==
    Append(Append(table,
                  MessageRow(Len(table) + 1, user_id, role, content, tokens_used, cost,
                             by, turn)),
           MessageRow(Len(table) + 2, user_id, role, content, tokens_used, cost, by, turn))

SaveMessage(table, user_id, role, content, tokens_used, cost, by, turn) ==
    Append(table,
           MessageRow(Len(table) + 1, user_id, role, content, tokens_used, cost, by, turn))

\* update_usage_metrics, first datastore call: the select of today's record;
\* existing = result.data[0] when there is one.
UsageSelect(table, user_id) ==
    LET rows == SelectSeq(table, LAMBDA row : row.user_id = user_id /\ row.date = Today)
    IN  IF rows = <<>> THEN NoRow
        ELSE [id |-> rows[1].id, total_messages |-> rows[1].total_messages,
              total_tokens |-> rows[1].total_tokens, total_cost |-> rows[1].total_cost]

\* update_usage_metrics, second datastore call when a record was read: the
\* totals computed from the record as read are written to the row of its id.
UsageUpdate(table, existing, messages_count, tokens_used, cost) ==
    [i \in DOMAIN table |->
        IF table[i].id = existing.id
        THEN [table[i] EXCEPT !.total_messages = existing.total_messages + messages_count,
                              !.total_tokens = existing.total_tokens + tokens_used,
                              !.total_cost = existing.total_cost + cost]
        ELSE table[i]]

\* update_usage_metrics, second datastore call when no record was read.
UsageInsert(table, user_id, messages_count, tokens_used, cost) ==
    Append(table,
           [id |-> Len(table) + 1, user_id |-> user_id, date |-> Today,
            total_messages |-> messages_count, total_tokens |-> tokens_used,
            total_cost |-> cost])

UsageWriteBack(table, existing, user_id, messages_count, tokens_used, cost) ==
    IF existing.id # 0
    THEN UsageUpdate(table, existing, messages_count, tokens_used, cost)
    ELSE UsageInsert(table, user_id, messages_count, tokens_used, cost)

\* ------------------------------------------------------ relay (chat.py)

\* tokens_used = usage_stats.get("total_tokens", 0) if usage_stats else 0
TokensUsed(usage_stats) == IF usage_stats.some THEN usage_stats.total_tokens ELSE 0

\* cost = Decimal(str(usage_stats.get("cost", 0.0))) if usage_stats else Decimal("0.0")
CostOf(usage_stats) == IF usage_stats.some THEN usage_stats.cost ELSE 0

\* if chunk["type"] == "message" and chunk["content"]: full_response += chunk["content"]
Accumulate(chunk, full_response) ==
    IF chunk.type = "message" /\ Truthy(chunk.content)
    THEN full_response \o chunk.content
    ELSE full_response

\* Variant: the text of the done event is ignored.
FinalText_KeepsAccumulated(done_content, full_response) == full_response

\* full_response = chunk["content"] or full_response
FinalText(done_content, full_response) ==
    IF Truthy(done_content) THEN done_content ELSE full_response

\* StreamChunk.type: Literal["message", "usage", "error", "done"]
StreamChunkTypes == {"message", "usage", "error", "done"}

StreamChunkValid(chunk) == chunk.type \in StreamChunkTypes

ValidationError == "validation error"

WireEvent(event, chunk) == [event |-> event, data |-> chunk]

ErrorChunk(content) == Chunk("error", content, "", NoUsage)

\* str(HTTPException(status_code, detail))
HTTPExceptionText(status, detail) == status \o ": " \o detail

HandlerPrefix(transport) ==
    IF transport = "buffered" THEN "Failed to process message: "
    ELSE "Failed to start stream: "

\* Variant: the exception is swallowed and the handler goes on to the agent.
HandlerFailure_GoesOn(q, text) == [q EXCEPT !.pc = "call_agent"]

\* An exception raised in the handler body of the two HTTP endpoints, or in the
\* receive loop of the socket outside the inner try.
HandlerFailure(q, text) ==
    IF q.transport = "ws"
    THEN [q EXCEPT !.pc = "closed", !.wire = Append(@, WireEvent("json", ErrorChunk(text)))]
    ELSE [q EXCEPT !.pc = "done",
                   !.response = Failure(500, HandlerPrefix(q.transport) \o text)]

\* An exception raised while the agent's sequence is relayed or the turn is
\* persisted.
TurnFailure(q, text) ==
    CASE q.transport = "buffered" ->
            [q EXCEPT !.pc = "done",
                      !.response = Failure(500, HandlerPrefix("buffered") \o text)]
      [] q.transport = "sse" ->
            [q EXCEPT !.pc = "done",
                      !.wire = Append(@, WireEvent("error", ErrorChunk(text)))]
      [] OTHER ->
            [q EXCEPT !.pc = "receive",
                      !.wire = Append(@, WireEvent("json", ErrorChunk(text)))]

\* Where a turn goes once it is over without an exception.
TurnOver(q) ==
    CASE q.transport = "buffered" ->
            [q EXCEPT !.pc = "done",
                      !.response = [status |-> 200, detail |-> "",
                                    agent_response |-> q.full_response,
                                    usage_stats |-> q.usage_stats,
                                    message |-> q.agent_message]]
      [] q.transport = "sse" -> [q EXCEPT !.pc = "done"]
      [] OTHER -> [q EXCEPT !.pc = "receive"]

\* The end of the relay loop: persist when there is text.
\* Variant: an empty text is saved like any other.
AfterLoop_SavesEmpty(q) == [q EXCEPT !.pc = "save_agent"]

\* What follows the relay loop: the turn is persisted when there is text.
AfterLoop(q) ==
    IF Truthy(q.full_response) THEN [q EXCEPT !.pc = "save_agent"]
    ELSE IF q.transport = "buffered"
    THEN TurnFailure(q, HTTPExceptionText("500", "No response from agent"))
    ELSE TurnOver(q)

\* Variant: an error event ends the loop as a done event does.
BufferedChunk_ErrorEndsLoop(q, chunk) ==
    IF chunk.type = "message" /\ Truthy(chunk.content)
    THEN [q EXCEPT !.full_response = Accumulate(chunk, @), !.pos = @ + 1]
    ELSE IF chunk.type = "done"
    THEN AfterLoop([q EXCEPT !.full_response = FinalText(chunk.content, @),
                             !.usage_stats = chunk.usage_stats])
    ELSE IF chunk.type = "error" THEN AfterLoop(q)
    ELSE [q EXCEPT !.pos = @ + 1]

\* send_message: one iteration of the async for.
BufferedChunk(q, chunk) ==
    IF chunk.type = "message" /\ Truthy(chunk.content)
    THEN [q EXCEPT !.full_response = Accumulate(chunk, @), !.pos = @ + 1]
    ELSE IF chunk.type = "done"
    THEN AfterLoop([q EXCEPT !.full_response = FinalText(chunk.content, @),
                             !.usage_stats = chunk.usage_stats])
    ELSE IF chunk.type = "error"
    THEN TurnFailure(q, HTTPExceptionText("500", "Agent error: " \o chunk.content))
    ELSE [q EXCEPT !.pos = @ + 1]

\* generate_stream: one iteration of the async for.
ServerSentChunk(q, chunk) ==
    IF ~StreamChunkValid(chunk) THEN TurnFailure(q, ValidationError)
    ELSE LET acc == IF chunk.type = "done"
                    THEN [q EXCEPT !.full_response = FinalText(chunk.content, @),
                                   !.usage_stats = chunk.usage_stats]
                    ELSE [q EXCEPT !.full_response = Accumulate(chunk, @)]
             sent == [acc EXCEPT !.wire = Append(@, WireEvent("message", chunk))]
         IN  IF chunk.type \in {"done", "error"} THEN AfterLoop(sent)
             ELSE [sent EXCEPT !.pos = @ + 1]

\* Variant: the socket sends only the events the wire model of the
\* server-sent transport accepts.
WebsocketChunk_SendsValidOnly(q, chunk) ==
    LET sent == IF StreamChunkValid(chunk)
                THEN [q EXCEPT !.wire = Append(@, WireEvent("json", chunk))]
                ELSE q
    IN  IF chunk.type = "message" /\ Truthy(chunk.content)
        THEN [sent EXCEPT !.full_response = Accumulate(chunk, @), !.pos = @ + 1]
        ELSE IF chunk.type = "done"
        THEN AfterLoop([sent EXCEPT !.full_response = FinalText(chunk.content, @),
                                    !.usage_stats = chunk.usage_stats])
        ELSE IF chunk.type = "error" THEN AfterLoop(sent)
        ELSE [sent EXCEPT !.pos = @ + 1]

\* websocket_chat: one iteration of the async for.
WebsocketChunk(q, chunk) ==
    LET sent == [q EXCEPT !.wire = Append(@, WireEvent("json", chunk))]
    IN  IF chunk.type = "message" /\ Truthy(chunk.content)
        THEN [sent EXCEPT !.full_response = Accumulate(chunk, @), !.pos = @ + 1]
        ELSE IF chunk.type = "done"
        THEN AfterLoop([sent EXCEPT !.full_response = FinalText(chunk.content, @),
                                    !.usage_stats = chunk.usage_stats])
        ELSE IF chunk.type = "error" THEN AfterLoop(sent)
        ELSE [sent EXCEPT !.pos = @ + 1]

\* ------------------------------------------------------------------ actions

\* POST /chat/message and POST /chat/stream up to the first datastore call.
HttpBegin(r) ==
    /\ r \in Clients(scenario)
    /\ req[r].pc = "idle"
    /\ \E t \in {"buffered", "sse"}, u \in ClientUsers(scenario, r) :
          LET q == [req[r] EXCEPT !.transport = t, !.user = u, !.content = "hi",
                                  !.inbound = 1]
          IN  req' = [req EXCEPT ![r] =
                        IF ~Truthy(user_profiles[u].letta_agent_id)
                        THEN HandlerFailure(q, HTTPExceptionText("400", "User agent not found"))
                        ELSE [q EXCEPT !.pc = "save_user"]]
    /\ UNCHANGED <<environment, scenario, user_profiles, messages, usage_metrics, ledger_calls, proxyVars>>

\* WS /chat/stream: accept, and the check of the agent reference.
WebsocketAccept(r) ==
    /\ r \in Clients(scenario)
    /\ req[r].pc = "idle"
    /\ \E u \in ClientUsers(scenario, r) :
          LET q == [req[r] EXCEPT !.transport = "ws", !.user = u]
          IN  req' = [req EXCEPT ![r] =
                        IF ~Truthy(user_profiles[u].letta_agent_id)
                        THEN [q EXCEPT !.pc = "closed",
                                       !.wire = Append(@, WireEvent("json",
                                                    ErrorChunk("User agent not found")))]
                        ELSE [q EXCEPT !.pc = "receive"]]
    /\ UNCHANGED <<environment, scenario, user_profiles, messages, usage_metrics, ledger_calls, proxyVars>>

\* The JSON objects a client may send on the socket: a message, an empty
\* message, and an object without the key.
InboundData == {[message |-> "hi"], [message |-> ""], [type |-> "ping"]}

\* data.get("message", "")
MessageOf(data) == IF "message" \in DOMAIN data THEN data.message ELSE ""

\* Variant: an empty message is taken into the turn like any other.
WebsocketReceive_EmptyGoesOn(r) ==
    /\ req[r].pc = "receive"
    /\ req[r].inbound < InboundPerConnection(scenario)
    /\ \E data \in InboundData :
          req' = [req EXCEPT ![r] =
                    [@ EXCEPT !.inbound = @ + 1, !.content = MessageOf(data),
                              !.pc = "save_user"]]
    /\ UNCHANGED <<environment, scenario, user_profiles, messages, usage_metrics, ledger_calls, proxyVars>>

\* websocket.receive_json(): one inbound turn, empty or not.
WebsocketReceive(r) ==
    /\ req[r].pc = "receive"
    /\ req[r].inbound < InboundPerConnection(scenario)
    /\ \E data \in InboundData :
          LET q == [req[r] EXCEPT !.inbound = @ + 1, !.content = MessageOf(data)]
          IN  req' = [req EXCEPT ![r] =
                        IF ~Truthy(q.content)
                        THEN [q EXCEPT !.wire = Append(@, WireEvent("json",
                                                    ErrorChunk("Empty message")))]
                        ELSE [q EXCEPT !.pc = "save_user"]]
    /\ UNCHANGED <<environment, scenario, user_profiles, messages, usage_metrics, ledger_calls, proxyVars>>

\* websocket.receive_json() raises WebSocketDisconnect.
WebsocketDisconnect(r) ==
    /\ req[r].pc = "receive"
    /\ req' = [req EXCEPT ![r].pc = "closed"]
    /\ UNCHANGED <<environment, scenario, user_profiles, messages, usage_metrics, ledger_calls, proxyVars>>

\* The save of the user message: the insert, or an exception of the datastore.
SaveUserMessage(r) ==
    /\ req[r].pc = "save_user"
    /\ \/ /\ messages' = SaveMessage(messages, req[r].user, "user", req[r].content,
                                     NoNumber, NoNumber, r, req[r].inbound)
          /\ req' = [req EXCEPT ![r] =
                        [@ EXCEPT !.pc = "call_agent",
                                  !.response = IF req[r].transport = "sse"
                                               THEN [NoResponse EXCEPT !.status = 200]
                                               ELSE @]]
       \/ /\ req' = [req EXCEPT ![r] = HandlerFailure(@, DatastoreError)]
          /\ UNCHANGED messages
    /\ UNCHANGED <<environment, scenario, user_profiles, usage_metrics, ledger_calls, proxyVars>>

\* Variant: the accumulators keep what the last turn left in them.
CallAgent_KeepsAccumulators(r) ==
    /\ req[r].pc = "call_agent"
    /\ \E src \in AgentSources(scenario) :
          req' = [req EXCEPT ![r] =
                    [@ EXCEPT !.pc = "stream", !.agent_calls = @ \cup {req[r].inbound},
                              !.host_requests = @ + src.requests,
                              !.host = src.host, !.chunks = src.chunks, !.pos = 1,
                              !.mark = Len(req[r].wire),
                              !.existing = NoRow, !.agent_message = 0]]
    /\ UNCHANGED <<environment, scenario, user_profiles, messages, usage_metrics, ledger_calls, proxyVars>>

\* letta_service.send_message(...) is called and the accumulators are reset.
CallAgent(r) ==
    /\ req[r].pc = "call_agent"
    /\ \E src \in AgentSources(scenario) :
          req' = [req EXCEPT ![r] =
                    [@ EXCEPT !.pc = "stream", !.agent_calls = @ \cup {req[r].inbound},
                              !.host_requests = @ + src.requests,
                              !.host = src.host, !.chunks = src.chunks, !.pos = 1,
                              !.mark = Len(req[r].wire),
                              !.full_response = "", !.usage_stats = NoUsage,
                              !.existing = NoRow, !.agent_message = 0]]
    /\ UNCHANGED <<environment, scenario, user_profiles, messages, usage_metrics, ledger_calls, proxyVars>>

\* Variant: the accumulated text is one variable shared by the requests; a
\* request relaying an event starts from the text the other request has.
RelayChunk_SharedText(r) ==
    /\ req[r].pc = "stream"
    /\ req[r].pos <= Len(req[r].chunks)
    /\ LET other == CHOOSE o \in Reqs : o # r
           q == [req[r] EXCEPT !.full_response =
                                  IF req[other].pc = "idle" THEN @
                                  ELSE req[other].full_response]
           chunk == q.chunks[q.pos]
       IN  req' = [req EXCEPT ![r] =
                     CASE q.transport = "buffered" -> BufferedChunk(q, chunk)
                       [] q.transport = "sse" -> ServerSentChunk(q, chunk)
                       [] OTHER -> WebsocketChunk(q, chunk)]
    /\ UNCHANGED <<environment, scenario, user_profiles, messages, usage_metrics, ledger_calls, proxyVars>>

\* One event is pulled from the sequence and handled.
RelayChunk(r) ==
    /\ req[r].pc = "stream"
    /\ req[r].pos <= Len(req[r].chunks)
    /\ LET q == req[r]
           chunk == q.chunks[q.pos]
       IN  req' = [req EXCEPT ![r] =
                     CASE q.transport = "buffered" -> BufferedChunk(q, chunk)
                       [] q.transport = "sse" -> ServerSentChunk(q, chunk)
                       [] OTHER -> WebsocketChunk(q, chunk)]
    /\ UNCHANGED <<environment, scenario, user_profiles, messages, usage_metrics, ledger_calls, proxyVars>>

\* The handler of a turn whose client has gone: on the socket send_json
\* raises, the inner except clause's own send raises too, and the outer
\* clause ends the handler; on the server-sent transport the generator is
\* cancelled where it waits.  Neither reaches the code after the loop.
Disconnected(q) == [q EXCEPT !.pc = "aborted"]

\* The client goes away while the sequence of its turn is relayed.
ClientDisconnect(r) ==
    /\ req[r].pc = "stream"
    /\ req[r].transport \in {"ws", "sse"}
    /\ req' = [req EXCEPT ![r] = Disconnected(@)]
    /\ UNCHANGED <<environment, scenario, user_profiles, messages, usage_metrics, ledger_calls, proxyVars>>

\* The save of the assistant message.
SaveAgentMessage(r) ==
    /\ req[r].pc = "save_agent"
    /\ \/ /\ messages' = SaveMessage(messages, req[r].user, "assistant",
                                     req[r].full_response, TokensUsed(req[r].usage_stats),
                                     CostOf(req[r].usage_stats), r, req[r].inbound)
          /\ req' = [req EXCEPT ![r] =
                        [@ EXCEPT !.pc = "usage_read", !.agent_message = Len(messages) + 1]]
       \/ /\ req' = [req EXCEPT ![r] = TurnFailure(@, DatastoreError)]
          /\ UNCHANGED messages
    /\ UNCHANGED <<environment, scenario, user_profiles, usage_metrics, ledger_calls, proxyVars>>

\* update_usage_metrics: the select.
UsageRead(r) ==
    /\ req[r].pc = "usage_read"
    /\ \/ req' = [req EXCEPT ![r] =
                    [@ EXCEPT !.pc = "usage_write",
                              !.existing = UsageSelect(usage_metrics, req[r].user)]]
       \/ req' = [req EXCEPT ![r] = TurnFailure(@, DatastoreError)]
    /\ UNCHANGED <<environment, scenario, user_profiles, messages, usage_metrics, ledger_calls, proxyVars>>

LedgerCall(by, turn, user_id, messages_count, tokens_used, cost) ==
    [by |-> by, turn |-> turn, user_id |-> user_id, messages_count |-> messages_count,
     tokens_used |-> tokens_used, cost |-> cost]

\* update_usage_metrics: the update or the insert.
UsageWrite(r) ==
    /\ req[r].pc = "usage_write"
    /\ \/ /\ usage_metrics' = UsageWriteBack(usage_metrics, req[r].existing, req[r].user, 2,
                                             TokensUsed(req[r].usage_stats),
                                             CostOf(req[r].usage_stats))
          /\ ledger_calls' = Append(ledger_calls,
                                    LedgerCall(r, req[r].inbound, req[r].user, 2,
                                               TokensUsed(req[r].usage_stats),
                                               CostOf(req[r].usage_stats)))
          /\ req' = [req EXCEPT ![r] = TurnOver(@)]
       \/ /\ req' = [req EXCEPT ![r] = TurnFailure(@, DatastoreError)]
          /\ UNCHANGED <<usage_metrics, ledger_calls>>
    /\ UNCHANGED <<environment, scenario, user_profiles, messages, proxyVars>>

\* ------------------------------------------------------------ chat history

\* A message table of the given owners, in insertion order.
HistoryTable(owners) ==
    [i \in 1 .. Len(owners) |->
        MessageRow(i, owners[i], IF i % 2 = 1 THEN "user" ELSE "assistant", "m",
                   NoNumber, NoNumber, 0, 0)]

HistoryTables == {HistoryTable(owners) : owners \in SeqsUpTo({"u1", "u2"}, MaxHistory)}

\* The query parameters a client may send.
PageInputs == -1 .. 3

PageSizeInputs == {-1, 0, 1, 2, 3, 100, 101}

\* "history": one client reads its history, page after page while has_next,
\* over a message table that does not change.
InitHistory ==
    /\ environment \in Environments
    /\ scenario = "history"
    /\ user_profiles = InitialProfiles
    /\ messages \in HistoryTables
    /\ usage_metrics = <<>> /\ ledger_calls = <<>>
    /\ req = [r \in Reqs |-> IdleRequest]
    /\ proxy = IdleProxy
    /\ gateway_calls = <<>>
    /\ gateway_keys = InitialKeys
    /\ reset = NoReset

RECURSIVE Reverse(_)
Reverse(s) == IF s = <<>> THEN <<>> ELSE Append(Reverse(Tail(s)), Head(s))

\* .eq("user_id", user_id).order("created_at", desc=True): the ids of the
\* user's rows, newest first.
OrderedIds(table, user_id) ==
    LET own == SelectSeq(table, LAMBDA row : row.user_id = user_id)
    IN  Reverse([i \in DOMAIN own |-> own[i].id])

\* .range(first, last): the rows at the 0-based positions first .. last.
Range(rows, first, last) ==
    SubSeq(rows, first + 1, IF last + 1 < Len(rows) THEN last + 1 ELSE Len(rows))

\* What the datastore may do with .range(first, last) over total rows: a
\* range inside the rows is answered with the rows, or the call raises; a
\* range that starts below 0, ends before it starts or starts past the last
\* row is answered with no rows, or the call raises.
RangeOutcomes(first, last, total) ==
    IF first >= 0 /\ last >= first /\ (first < total \/ first = 0)
    THEN {"rows", "raises"}
    ELSE {"empty", "raises"}

\* Variant: has_next is true also when the window ends at the last row.
HistoryData_Inclusive(table, user_id, page, page_size, outcome) ==
    LET offset == (page - 1) * page_size
        rows == OrderedIds(table, user_id)
    IN  [messages |-> IF outcome = "rows"
                      THEN Range(rows, offset, offset + page_size - 1) ELSE <<>>,
         total |-> Len(rows), page |-> page, page_size |-> page_size,
         has_next |-> offset + page_size <= Len(rows)]

\* SupabaseService.get_chat_history, when the datastore does not raise.
HistoryData(table, user_id, page, page_size, outcome) ==
    LET offset == (page - 1) * page_size
        rows == OrderedIds(table, user_id)
    IN  [messages |-> IF outcome = "rows"
                      THEN Range(rows, offset, offset + page_size - 1) ELSE <<>>,
         total |-> Len(rows), page |-> page, page_size |-> page_size,
         has_next |-> offset + page_size < Len(rows)]

\* if page < 1: page = 1
ClampPage(page) == IF page < 1 THEN 1 ELSE page

\* if page_size > 100: page_size = 100
ClampPageSize(page_size) == IF page_size > 100 THEN 100 ELSE page_size

\* GET /chat/history with the given query parameters; queries records the
\* page and page_size of each datastore query.
GetChatHistory(q, table, page_in, page_size_in, outcome) ==
    LET page == ClampPage(page_in)
        page_size == ClampPageSize(page_size_in)
        data == HistoryData(table, q.user, page, page_size, outcome)
        h == [q.history EXCEPT !.requests = @ + 1,
                               !.queries = Append(@, [page |-> page,
                                                      page_size |-> page_size])]
    IN  IF outcome = "raises"
        THEN [q EXCEPT !.pc = "done",
                       !.history = [h EXCEPT !.status = 500,
                                             !.detail = "Failed to get chat history",
                                             !.messages = <<>>, !.has_next = FALSE]]
        ELSE [q EXCEPT !.pc = IF data.has_next THEN "paging" ELSE "done",
                       !.history = [h EXCEPT !.status = 200, !.detail = "",
                                             !.messages = data.messages,
                                             !.total = data.total,
                                             !.page = data.page,
                                             !.page_size = data.page_size,
                                             !.has_next = data.has_next,
                                             !.fetched = q.history.fetched
                                                         \o data.messages]]

\* A client asks for a page of its history.
HistoryRequest(r) ==
    /\ r \in Clients(scenario)
    /\ req[r].pc = "idle"
    /\ \E u \in ClientUsers(scenario, r), page \in PageInputs,
          page_size \in PageSizeInputs :
          LET q == [req[r] EXCEPT !.user = u, !.history.page_in = page,
                                  !.history.page_size_in = page_size]
              first == (ClampPage(page) - 1) * ClampPageSize(page_size)
              last == first + ClampPageSize(page_size) - 1
          IN  \E outcome \in RangeOutcomes(first, last,
                                            Len(OrderedIds(messages, u))) :
                 req' = [req EXCEPT ![r] =
                           GetChatHistory(q, messages, page, page_size, outcome)]
    /\ UNCHANGED <<environment, scenario, user_profiles, messages, usage_metrics, ledger_calls, proxyVars>>

\* The client was told has_next and asks for the page after the one it got,
\* with the page_size it sent before.
HistoryNextPage(r) ==
    /\ req[r].pc = "paging"
    /\ req[r].history.requests < MaxPages
    /\ LET page == req[r].history.page + 1
           page_size == req[r].history.page_size_in
           first == (ClampPage(page) - 1) * ClampPageSize(page_size)
           last == first + ClampPageSize(page_size) - 1
       IN  \E outcome \in RangeOutcomes(first, last,
                                         Len(OrderedIds(messages, req[r].user))) :
              req' = [req EXCEPT ![r] =
                        GetChatHistory(req[r], messages, page, page_size, outcome)]
    /\ UNCHANGED <<environment, scenario, user_profiles, messages, usage_metrics, ledger_calls, proxyVars>>

NextHistory ==
    \E r \in Reqs :
        \/ HistoryRequest(r)
        \/ HistoryNextPage(r)

SpecHistory == InitHistory /\ [][NextHistory]_vars

\* ------------------------------------------------ reverse proxy (llm_proxy.py)

\* settings.letta_global_api_key
SharedSecret == "letta-global-proxy-key"

\* The Authorization header of an inbound proxy call: none, the shared secret,
\* another bearer token, a user's own billing key, or another scheme.
CallerHeaders ==
    {[scheme |-> "", credentials |-> ""],
     [scheme |-> "Bearer", credentials |-> SharedSecret],
     [scheme |-> "Bearer", credentials |-> "wrong-key"],
     [scheme |-> "Bearer", credentials |-> "sk-u1"],
     [scheme |-> "Basic", credentials |-> SharedSecret]}

AgentIds == {"agent-1", "agent-2", "agent-3", "agent-9"}

\* security = HTTPBearer(): a missing header or another scheme is refused
\* before the dependency's body runs.
HTTPBearerAccepts(p) == p.scheme = "Bearer" /\ p.credentials # ""

\* Variant: any bearer token is taken for the shared secret.
VerifyLettaRequest_AnyToken(credentials) == TRUE

\* verify_letta_request
VerifyLettaRequest(credentials) == credentials = SharedSecret

\* Variant: an unknown agent falls through to a default user.
GetUserByAgentId_Default(profiles, agent_id, raises) ==
    IF ~raises /\ \E u \in DOMAIN profiles : profiles[u].letta_agent_id = agent_id
    THEN profiles[CHOOSE u \in DOMAIN profiles : profiles[u].letta_agent_id = agent_id]
    ELSE profiles["u1"]

\* SupabaseService.get_user_by_agent_id: result.data[0], or None; None too
\* when the datastore raises.
GetUserByAgentId(profiles, agent_id, raises) ==
    IF ~raises /\ \E u \in DOMAIN profiles : profiles[u].letta_agent_id = agent_id
    THEN profiles[CHOOSE u \in DOMAIN profiles : profiles[u].letta_agent_id = agent_id]
    ELSE NoProfile

\* Variant: the caller's header is passed on.
ForwardAuthorization_CallerHeader(p) == p.scheme \o " " \o p.credentials

\* "Authorization": f"Bearer {litellm_key}"
ForwardAuthorization(p) == "Bearer " \o p.user_profile.litellm_key

\* The request the proxy sends to the Billing Gateway; agent_id and caller
\* record the inbound call it was sent for, revoked the keys that were
\* invalidated when that call arrived.
GatewayRequest(p) ==
    [path |-> IF p.op = "embeddings" THEN "/embeddings" ELSE "/chat/completions",
     authorization |-> ForwardAuthorization(p),
     streamed |-> (p.op = "completions" /\ p.stream),
     agent_id |-> p.agent_id,
     caller |-> p.scheme \o " " \o p.credentials,
     revoked |-> p.revoked]

\* ------------------------------------------------ bytes and text (httpx)

\* The bytes a gateway body is made of: "61" is the letter a, "C3" "A9" the
\* two bytes of the letter e-acute, "FF" a byte no UTF-8 text holds.
Bytes == {"61", "C3", "A9", "FF"}

\* U+FFFD, which the decoder puts in the place of undecodable bytes.
Replacement == "U+FFFD"

NoByte == ""

\* codecs.getincrementaldecoder("utf-8")(errors="replace").decode(chunk): the
\* characters decoded from the bytes of one chunk, and the lead byte held
\* back for the next chunk.
RECURSIVE Utf8Decode(_, _)
Utf8Decode(bytes, pending) ==
    IF bytes = <<>> THEN [text |-> <<>>, pending |-> pending]
    ELSE LET b == Head(bytes)
             dropped == IF pending = NoByte THEN <<>> ELSE <<Replacement>>
             here == CASE b = "61" -> [text |-> dropped \o <<"a">>, pending |-> NoByte]
                       [] b = "C3" -> [text |-> dropped, pending |-> "C3"]
                       [] b = "A9" -> [text |-> IF pending = "C3" THEN <<"e-acute">>
                                                ELSE <<Replacement>>,
                                       pending |-> NoByte]
                       [] OTHER -> [text |-> dropped \o <<Replacement>>, pending |-> NoByte]
             rest == Utf8Decode(Tail(bytes), here.pending)
         IN  [text |-> here.text \o rest.text, pending |-> rest.pending]

\* decoder.flush(): a lead byte still held back is undecodable.
Utf8Flush(pending) == IF pending = NoByte THEN <<>> ELSE <<Replacement>>

\* str.encode("utf-8"), character by character; a line the proxy writes
\* itself is one character of the model and is its own encoding.
RECURSIVE Utf8Encode(_)
Utf8Encode(text) ==
    IF text = <<>> THEN <<>>
    ELSE (CASE Head(text) = "a" -> <<"61">>
            [] Head(text) = "e-acute" -> <<"C3", "A9">>
            [] Head(text) = Replacement -> <<"EF", "BF", "BD">>
            [] OTHER -> <<Head(text)>>)
         \o Utf8Encode(Tail(text))

RECURSIVE Flatten(_)
Flatten(chunks) == IF chunks = <<>> THEN <<>> ELSE Head(chunks) \o Flatten(Tail(chunks))

\* response.text: the whole body decoded.
ResponseText(chunks) ==
    LET decoded == Utf8Decode(Flatten(chunks), NoByte)
    IN  decoded.text \o Utf8Flush(decoded.pending)

\* response.aiter_text(): the text chunks yielded for the first n byte chunks,
\* empty ones left out; flush says whether the body ended after them.
RECURSIVE AiterText(_, _, _, _)
AiterText(chunks, n, pending, flush) ==
    IF n = 0 \/ chunks = <<>>
    THEN (IF flush /\ pending # NoByte THEN <<Utf8Flush(pending)>> ELSE <<>>)
    ELSE LET decoded == Utf8Decode(Head(chunks), pending)
         IN  (IF decoded.text = <<>> THEN <<>> ELSE <<decoded.text>>)
             \o AiterText(Tail(chunks), n - 1, decoded.pending, flush)

\* The characters of a sequence as one string, for a detail text.
RECURSIVE Join(_)
Join(chunks) == IF chunks = <<>> THEN "" ELSE Head(chunks) \o Join(Tail(chunks))

\* ------------------------------------------------ Billing Gateway (environment)

\* What the Billing Gateway does with a request: kind "ok" (status 200 and
\* the byte chunks of the body), "status" (a non-success status and a body),
\* "timeout" or "unreachable" (raised after `after` chunks were received,
\* with the exception's message in text).
GatewayOutcome(kind, status, chunks, after, text) ==
    [kind |-> kind, status |-> status, chunks |-> chunks, after |-> after, text |-> text]

\* The byte chunks a body may arrive in.
ByteChunks == {<<"61">>, <<"C3", "A9">>, <<"C3">>, <<"A9">>, <<"FF">>}

\* str(e) of an httpx exception: often empty, else a description.
ExceptionTexts(kind) ==
    IF kind = "timeout" THEN {"", "timed out"} ELSE {"", "connection refused"}

GatewayOutcomes ==
    {GatewayOutcome("ok", 200, cs, 0, "") : cs \in SeqsUpTo(ByteChunks, MaxBodyChunks)}
    \cup {GatewayOutcome("status", st, <<<<"61">>>>, 0, "") : st \in {429, 500, 504}}
    \cup UNION {{GatewayOutcome(k, 0, <<<<"61">>, <<"61">>>>, n, t) :
                    n \in 0 .. 1, t \in ExceptionTexts(k)} :
                 k \in {"timeout", "unreachable"}}

Answer(p, status, detail, body) ==
    [p EXCEPT !.pc = "done", !.status = status, !.detail = detail, !.body = body]

\* Variant: the enclosing handler wraps what proxy_regular_request raises.
RegularAnswer_Wrapped(p, g) ==
    IF g.kind = "ok" THEN Answer(p, 200, "", <<ResponseText(g.chunks)>>)
    ELSE Answer(p, 500, "Proxy error: " \o g.kind, <<>>)

\* proxy_regular_request
RegularAnswer(p, g) ==
    CASE g.kind = "ok" -> Answer(p, 200, "", <<ResponseText(g.chunks)>>)
      [] g.kind = "status" ->
            Answer(p, g.status, "LiteLLM error: " \o Join(ResponseText(g.chunks)), <<>>)
      [] g.kind = "timeout" -> Answer(p, 504, "LiteLLM timeout", <<>>)
      [] OTHER -> Answer(p, 502, "LiteLLM connection error: " \o g.text, <<>>)

\* The line stream_generator writes for a failure: "data: " and the JSON
\* object {"error": message}.
ErrorLine(message) == <<"data: {\"error\": \"" \o message \o "\"}">>

\* proxy_streaming_request.stream_generator: the str chunks it yields.
StreamedText(g) ==
    CASE g.kind = "ok" -> AiterText(g.chunks, Len(g.chunks), NoByte, TRUE)
      [] g.kind = "status" -> <<ErrorLine("LiteLLM error: " \o Join(ResponseText(g.chunks)))>>
      [] g.kind = "timeout" ->
            AiterText(g.chunks, g.after, NoByte, FALSE) \o <<ErrorLine("LiteLLM timeout")>>
      [] OTHER ->
            AiterText(g.chunks, g.after, NoByte, FALSE)
            \o <<ErrorLine("LiteLLM connection error: " \o g.text)>>

\* StreamingResponse: each str chunk is encoded and sent.
StreamedBody(g) == [i \in DOMAIN StreamedText(g) |-> Utf8Encode(StreamedText(g)[i])]

\* proxy_streaming_request
StreamingAnswer(p, g) == Answer(p, 200, "", StreamedBody(g))

\* proxy_embeddings_request, from the call of the gateway on.
EmbeddingsAnswer(p, g) ==
    CASE g.kind = "ok" -> Answer(p, 200, "", <<ResponseText(g.chunks)>>)
      [] g.kind = "status" ->
            Answer(p, g.status,
                   "LiteLLM embeddings error: " \o Join(ResponseText(g.chunks)), <<>>)
      [] OTHER -> Answer(p, 500, "Embeddings proxy error: " \o g.text, <<>>)

\* An inbound call reaches POST /llm-proxy/{agent_id}/chat/completions or
\* POST /llm-proxy/{agent_id}/embeddings.
ProxyBegin ==
    /\ proxy.pc = "idle"
    /\ \E op \in {"completions", "embeddings"}, a \in AgentIds, h \in CallerHeaders,
          st \in BOOLEAN :
          proxy' = [proxy EXCEPT !.pc = "security", !.op = op, !.agent_id = a,
                                 !.scheme = h.scheme, !.credentials = h.credentials,
                                 !.stream = st, !.revoked = Revoked(gateway_keys)]
    /\ UNCHANGED <<environment, scenario, user_profiles, messages, usage_metrics, req, ledger_calls,
                   gateway_calls, gateway_keys, reset>>

\* Depends(verify_letta_request), which depends on Depends(security).
ProxySecurity ==
    /\ proxy.pc = "security"
    /\ proxy' = IF ~HTTPBearerAccepts(proxy)
                THEN Answer(proxy, 403, "Not authenticated", <<>>)
                ELSE IF ~VerifyLettaRequest(proxy.credentials)
                THEN Answer(proxy, 401, "Invalid Letta API key", <<>>)
                ELSE [proxy EXCEPT !.pc = "lookup"]
    /\ UNCHANGED <<environment, scenario, user_profiles, messages, usage_metrics, req, ledger_calls,
                   gateway_calls, gateway_keys, reset>>

\* get_user_by_agent_id: the Credential Directory lookup.
ProxyLookup ==
    /\ proxy.pc = "lookup"
    /\ \E raises \in BOOLEAN :
          LET found == GetUserByAgentId(user_profiles, proxy.agent_id, raises)
              p == [proxy EXCEPT !.lookups = @ + 1]
          IN  proxy' = IF found = NoProfile
                       THEN Answer(p, 404, "Agent " \o proxy.agent_id \o " not found", <<>>)
                       ELSE [p EXCEPT !.pc = "forward", !.user_profile = found]
    /\ UNCHANGED <<environment, scenario, user_profiles, messages, usage_metrics, req, ledger_calls,
                   gateway_calls, gateway_keys, reset>>

\* The answer of the operation and mode of the call to a gateway outcome.
ForwardAnswer(p, g) ==
    IF p.op = "embeddings" THEN EmbeddingsAnswer(p, g)
    ELSE IF p.stream THEN StreamingAnswer(p, g)
    ELSE RegularAnswer(p, g)

\* The request to the Billing Gateway and the answer made of its outcome.
ProxyForward ==
    /\ proxy.pc = "forward"
    /\ gateway_calls' = Append(gateway_calls, GatewayRequest(proxy))
    /\ \E g \in GatewayOutcomes : proxy' = ForwardAnswer([proxy EXCEPT !.outcome = g], g)
    /\ UNCHANGED <<environment, scenario, user_profiles, messages, usage_metrics, req, ledger_calls,
                   gateway_keys, reset>>

\* ------------------------------------------- reset-billing-key (user.py)

\* LiteLLMService.reset_user_key: the gateway invalidates the user's key and
\* issues the n-th new one.
NewKey(u, n) == "sk-" \o u \o "-r" \o ToString(n)

ResetUserKey(keys, u, n) ==
    [valid |-> [keys.valid EXCEPT ![u] = NewKey(u, n)],
     issued |-> [keys.issued EXCEPT ![u] = @ \cup {NewKey(u, n)}]]

\* The user_profiles table after a successful reset: the handler makes no
\* datastore call.
ProfilesAfterReset(profiles, u, new_key) == profiles

\* POST /user/reset-billing-key for the authenticated user u.
ResetBillingKey ==
    /\ reset.count < MaxResets
    /\ \E u \in Users, raises \in BOOLEAN :
          LET n == reset.count + 1
              answered == [reset EXCEPT !.count = n, !.user = u, !.new_key = None]
          IN  IF ~Truthy(user_profiles[u].litellm_key)
              THEN /\ reset' = [answered EXCEPT !.status = 400,
                                    !.detail = "User has no billing key to reset"]
                   /\ UNCHANGED <<gateway_keys, user_profiles>>
              ELSE IF raises
              THEN /\ reset' = [answered EXCEPT !.status = 500,
                                    !.detail = "Failed to reset billing key: gateway error"]
                   /\ UNCHANGED <<gateway_keys, user_profiles>>
              ELSE /\ gateway_keys' = ResetUserKey(gateway_keys, u, n)
                   /\ user_profiles' = ProfilesAfterReset(user_profiles, u, NewKey(u, n))
                   /\ reset' = [answered EXCEPT !.status = 200, !.detail = "",
                                    !.new_key = NewKey(u, n)]
    /\ UNCHANGED <<environment, scenario, messages, usage_metrics, req, ledger_calls, proxy,
                   gateway_calls>>

\* user_profile.litellm_key[:10] + "..." if user_profile.litellm_key else None
KeyPrefix(litellm_key) ==
    IF litellm_key = None \/ litellm_key = "" THEN None
    ELSE SubSeq(litellm_key, 1, IF Len(litellm_key) < 10 THEN Len(litellm_key) ELSE 10)
         \o "..."

\* GET /llm-proxy/{agent_id}/test: no caller check; the router's lookup
\* answers 404 for an unknown agent, else the mapping is returned.
TestProxy ==
    /\ proxy.pc = "idle"
    /\ \E a \in AgentIds, raises \in BOOLEAN :
          LET found == GetUserByAgentId(user_profiles, a, raises)
              p == [proxy EXCEPT !.op = "test", !.agent_id = a, !.lookups = @ + 1]
          IN  proxy' =
                IF found = NoProfile
                THEN Answer(p, 404, "Agent " \o a \o " not found", <<>>)
                ELSE [p EXCEPT !.pc = "done", !.status = 200, !.user_profile = found,
                               !.test = [agent_id |-> a, user_id |-> found.id,
                                         has_litellm_key |->
                                             ~(found.litellm_key \in {None, ""}),
                                         litellm_key_prefix |->
                                             KeyPrefix(found.litellm_key)]]
    /\ UNCHANGED <<environment, scenario, user_profiles, messages, usage_metrics, req, ledger_calls,
                   gateway_calls, gateway_keys, reset>>

NextDiagnostic == TestProxy

NextProxy ==
    \/ ProxyBegin
    \/ ProxySecurity
    \/ ProxyLookup
    \/ ProxyForward
    \/ ResetBillingKey

Next ==
    \E r \in Reqs :
        \/ HttpBegin(r)
        \/ WebsocketAccept(r)
        \/ WebsocketReceive(r)
        \/ WebsocketDisconnect(r)
        \/ SaveUserMessage(r)
        \/ CallAgent(r)
        \/ RelayChunk(r)
        \/ SaveAgentMessage(r)
        \/ UsageRead(r)
        \/ UsageWrite(r)

Spec == Init /\ [][Next]_vars

SpecConcurrent == InitConcurrent /\ [][Next]_vars

SpecInterface == InitInterface /\ [][Next]_vars

SpecProxy == InitProxy /\ [][NextProxy]_vars

SpecSession == InitSession /\ [][Next]_vars

NextDisconnect ==
    \/ Next
    \/ \E r \in Reqs : ClientDisconnect(r)

SpecDisconnect == InitDisconnect /\ [][NextDisconnect]_vars

SpecDiagnostic == InitDiagnostic /\ [][NextDiagnostic]_vars

\* ------------------------------------------------------------------ claims

\* A request is between two steps of a turn.
InTurn(r) ==
    req[r].pc \in {"save_user", "call_agent", "stream", "save_agent", "usage_read",
                   "usage_write"}

CallsOf(u) == SelectSeq(ledger_calls, LAMBDA c : c.user_id = u)

RECURSIVE SumTokens(_)
SumTokens(calls) ==
    IF calls = <<>> THEN 0 ELSE Head(calls).tokens_used + SumTokens(Tail(calls))

RECURSIVE SumCost(_)
SumCost(calls) ==
    IF calls = <<>> THEN 0 ELSE Head(calls).cost + SumCost(Tail(calls))

RECURSIVE SumMessages(_)
SumMessages(calls) ==
    IF calls = <<>> THEN 0 ELSE Head(calls).messages_count + SumMessages(Tail(calls))

\* C1: once the turns of a user have ended, today's ledger entry of the user
\* holds the sum of the increments of all the update_usage_metrics calls made
\* for the user: total_tokens = T1 + T2, and likewise the message count and
\* the cost, whatever the interleaving of the reads and writes of the calls.
C1_NoIncrementLost ==
    \A u \in Users :
        (/\ \A r \in Reqs : ~InTurn(r)
         /\ Len(CallsOf(u)) >= 2)
        => LET entry == UsageSelect(usage_metrics, u)
           IN  /\ entry.total_tokens = SumTokens(CallsOf(u))
               /\ entry.total_messages = SumMessages(CallsOf(u))
               /\ entry.total_cost = SumCost(CallsOf(u))


KnownAgent(agent_id) == \E u \in Users : user_profiles[u].letta_agent_id = agent_id

OwnerOf(agent_id) == CHOOSE u \in Users : user_profiles[u].letta_agent_id = agent_id

\* C3: every request the proxy sends to the Billing Gateway, for buffered
\* completions, streamed completions and embeddings, carries in its
\* Authorization header the billing key stored for the user whose agent
\* reference is in the path, and neither the shared secret nor the header
\* the caller sent.
C3_ForwardsStoredCredential ==
    \A i \in DOMAIN gateway_calls :
        LET g == gateway_calls[i]
        IN  /\ KnownAgent(g.agent_id)
            /\ g.authorization = "Bearer " \o user_profiles[OwnerOf(g.agent_id)].litellm_key
            /\ g.authorization # "Bearer " \o SharedSecret
            /\ g.authorization # g.caller

\* C3, witness: a streamed completions call for agent-2 was forwarded with
\* the billing key of u2.
C3_Witness ==
    \E i \in DOMAIN gateway_calls :
        /\ gateway_calls[i].streamed
        /\ gateway_calls[i].agent_id = "agent-2"
        /\ gateway_calls[i].caller = "Bearer " \o SharedSecret
        /\ gateway_calls[i].authorization = "Bearer sk-u2"

\* The inbound proxy call carries the shared secret as a bearer token.
CarriesSharedSecret == proxy.scheme = "Bearer" /\ proxy.credentials = SharedSecret

\* C4: a proxy call without the shared secret in its authorization header is
\* answered with an authorization failure, and no Credential Directory
\* lookup and no Billing Gateway request is made for it.
C4_RejectedBeforeAnyWork ==
    (proxy.pc # "idle" /\ ~CarriesSharedSecret)
    => /\ proxy.pc \in {"security", "done"}
       /\ proxy.lookups = 0
       /\ gateway_calls = <<>>
       /\ proxy.pc = "done" => proxy.status \in {401, 403}

\* C4, witness: an embeddings call with another bearer token was refused.
C4_Witness ==
    /\ proxy.pc = "done"
    /\ proxy.op = "embeddings"
    /\ proxy.credentials = "wrong-key"
    /\ proxy.status = 401

\* C5: a proxy call whose agent reference resolves to no user is answered
\* 404, and the Billing Gateway receives no request for an agent reference
\* that no user has.
C5_UnknownAgentNotFound ==
    /\ \A i \in DOMAIN gateway_calls : KnownAgent(gateway_calls[i].agent_id)
    /\ (proxy.pc = "done" /\ proxy.lookups > 0 /\ ~KnownAgent(proxy.agent_id))
       => proxy.status = 404 /\ gateway_calls = <<>>

\* C5, witness: an authorized embeddings call for an unknown agent reference
\* was answered 404 after the lookup.
C5_Witness ==
    /\ proxy.pc = "done"
    /\ proxy.op = "embeddings"
    /\ proxy.agent_id = "agent-9"
    /\ proxy.lookups = 1
    /\ proxy.status = 404

\* The events of a sequence up to and including its first done or error.
RECURSIVE UpToTerminal(_)
UpToTerminal(cs) ==
    IF cs = <<>> THEN <<>>
    ELSE IF Head(cs).type \in {"done", "error"} THEN <<Head(cs)>>
    ELSE <<Head(cs)>> \o UpToTerminal(Tail(cs))

TypesOf(events) == [i \in 1 .. Len(events) |-> events[i].type]

\* C2: when a server-sent response has ended, its wire events are the events
\* of the agent's sequence up to and including the first done or error, one
\* wire event per source event, in the same order and of the same type.
C2_OneWireEventPerSourceEvent ==
    \A r \in Reqs :
        (req[r].transport = "sse" /\ req[r].pc = "done" /\ req[r].agent_calls # {})
        => [i \in 1 .. Len(req[r].wire) |-> req[r].wire[i].data.type]
           = TypesOf(UpToTerminal(req[r].chunks))

\* The concatenation of the contents of the message events among the first n
\* events of a sequence.
RECURSIVE MessageText(_, _)
MessageText(cs, n) ==
    IF n = 0 THEN ""
    ELSE MessageText(cs, n - 1)
         \o (IF cs[n].type = "message" /\ cs[n].content \notin {"", None}
             THEN cs[n].content ELSE "")

\* The relay of request r has handled the done event of its sequence.
DoneHandled(r) ==
    /\ req[r].agent_calls # {}
    /\ req[r].pc \notin {"idle", "save_user", "call_agent", "stream"}
    /\ req[r].chunks[req[r].pos].type = "done"

\* C6: in every transport, once the done event is handled the text of the
\* turn is the text of the done event when that is non-empty and the
\* concatenation of the message contents otherwise; a buffered success
\* response carries that text as agent_response.
C6_DoneTextIsFinal ==
    \A r \in Reqs :
        DoneHandled(r)
        => LET done == req[r].chunks[req[r].pos]
               final == IF done.content # "" THEN done.content
                        ELSE MessageText(req[r].chunks, req[r].pos - 1)
           IN  /\ req[r].full_response = final
               /\ (req[r].transport = "buffered" /\ req[r].response.status = 200)
                  => req[r].response.agent_response = final

\* C6, witness: a buffered turn answered with the text of a done event that
\* differs from the non-empty concatenation of the message contents.
C6_Witness ==
    \E r \in Reqs :
        /\ DoneHandled(r)
        /\ req[r].transport = "buffered"
        /\ req[r].response.status = 200
        /\ MessageText(req[r].chunks, req[r].pos - 1) # ""
        /\ req[r].chunks[req[r].pos].content # ""
        /\ req[r].chunks[req[r].pos].content # MessageText(req[r].chunks, req[r].pos - 1)

\* A datastore call of the turn of request r raised.
DatastoreFailed(r) ==
    \/ req[r].response.detail = HandlerPrefix(req[r].transport) \o DatastoreError
    \/ /\ req[r].wire # <<>>
       /\ req[r].wire[Len(req[r].wire)].data = ErrorChunk(DatastoreError)

AssistantRows(r) ==
    SelectSeq(messages, LAMBDA row : row.by = r /\ row.role = "assistant")

UserRows(r) == SelectSeq(messages, LAMBDA row : row.by = r /\ row.role = "user")

LedgerCallsBy(r) == SelectSeq(ledger_calls, LAMBDA c : c.by = r)

UsageChunks(cs) == SelectSeq(cs, LAMBDA c : c.type = "usage")

\* C7: a buffered turn whose sequence ends with a done of non-empty text after
\* a usage event (N tokens, cost C) is answered with that text and that usage
\* payload, and creates exactly one assistant row with that text,
\* tokens_used = N and cost = C (no datastore call failing).
C7_BufferedTurnRecorded ==
    \A r \in Reqs :
        (/\ req[r].transport = "buffered" /\ req[r].pc = "done"
         /\ req[r].agent_calls # {}
         /\ req[r].chunks[Len(req[r].chunks)].type = "done"
         /\ req[r].chunks[Len(req[r].chunks)].content # ""
         /\ UsageChunks(req[r].chunks) # <<>>
         /\ ~DatastoreFailed(r))
        => LET text == req[r].chunks[Len(req[r].chunks)].content
               seen == UsageChunks(req[r].chunks)
               usage == seen[Len(seen)].usage_stats
               rows == AssistantRows(r)
           IN  /\ req[r].response.status = 200
               /\ req[r].response.agent_response = text
               /\ req[r].response.usage_stats = usage
               /\ Len(rows) = 1
               /\ rows[1].content = text
               /\ rows[1].tokens_used = usage.total_tokens
               /\ rows[1].cost = usage.cost

\* The sequence of the turn of request r has ended: its done or error event
\* was handled and nothing of the turn is left to do.
SequenceEnded(r) ==
    /\ req[r].agent_calls # {}
    /\ ~InTurn(r)
    /\ req[r].chunks[req[r].pos].type \in {"done", "error"}

\* C8: in every transport, once the sequence of a turn has ended, on done or
\* on error, a non-empty accumulated text has been persisted as the assistant
\* turn and the ledger has been updated once; with an empty text neither
\* write has happened (no datastore call failing).
C8_PersistedOnceSequenceEnds ==
    \A r \in Reqs :
        (SequenceEnded(r) /\ ~DatastoreFailed(r))
        => IF req[r].full_response # ""
           THEN /\ Len(AssistantRows(r)) = 1
                /\ AssistantRows(r)[1].content = req[r].full_response
                /\ Len(LedgerCallsBy(r)) = 1
           ELSE AssistantRows(r) = <<>> /\ LedgerCallsBy(r) = <<>>

\* C9: the agent is called for a turn only when the user message of that
\* turn is in the message table, and the row stays there whatever the agent
\* call does; a turn whose user message was not persisted calls no agent.
C9_UserMessageBeforeAgentCall ==
    \A r \in Reqs :
        \A t \in req[r].agent_calls \cup (IF req[r].pc = "call_agent" THEN {req[r].inbound} ELSE {}) :
            \E i \in DOMAIN messages :
                /\ messages[i].by = r /\ messages[i].turn = t
                /\ messages[i].role = "user"
                /\ messages[i].user_id = req[r].user

\* C9, witness: the agent call failed outright (its sequence is one error
\* event), the turn is over, and the user message is in the table.
C9_Witness ==
    \E r \in Reqs :
        /\ req[r].agent_calls # {}
        /\ ~InTurn(r)
        /\ Len(req[r].chunks) = 1 /\ req[r].chunks[1].type = "error"
        /\ Len(UserRows(r)) = 1

\* The attempts to read a line that send_message makes on a response: up to
\* the sentinel line, or one past the last line.
RECURSIVE ReadAttempts(_)
ReadAttempts(lines) ==
    IF lines = <<>> \/ Head(lines).kind = "sentinel" THEN 1
    ELSE 1 + ReadAttempts(Tail(lines))

\* The response is read to its end without a fault.
HostCompletes(host) ==
    /\ host.status = 200
    /\ host.fault = NoNumber \/ host.fault >= ReadAttempts(host.lines)

\* C10 as stated: every sequence send_message produces ends with exactly one
\* done event, its last element.
C10_AlwaysEndsWithDone ==
    \A r \in Reqs :
        req[r].agent_calls # {}
        => LET cs == req[r].chunks
           IN  /\ cs # <<>>
               /\ cs[Len(cs)].type = "done"
               /\ \A i \in 1 .. Len(cs) - 1 : cs[i].type # "done"

\* C10 as amended: every sequence send_message produces ends with exactly
\* one terminal event, its last element: a done event when the response is
\* read to its end (with or without a usage event), an error event and no
\* done event on a non-success status or a transport fault.
C10_EndsWithOneTerminal ==
    \A r \in Reqs :
        req[r].agent_calls # {}
        => LET cs == req[r].chunks
           IN  /\ cs # <<>>
               /\ \A i \in 1 .. Len(cs) - 1 : cs[i].type \notin {"done", "error"}
               /\ cs[Len(cs)].type = (IF HostCompletes(req[r].host) THEN "done" ELSE "error")

\* C10, witness: a transport fault after a message event was yielded.
C10_Witness ==
    \E r \in Reqs :
        /\ req[r].agent_calls # {}
        /\ req[r].host.status = 200
        /\ ~HostCompletes(req[r].host)
        /\ Len(req[r].chunks) = 2
        /\ req[r].chunks[1].type = "message"
        /\ req[r].chunks[2].type = "error"

\* The error events of a sequence.
ErrorChunks(cs) == SelectSeq(cs, LAMBDA c : c.type = "error")

\* C11: when the agent host answers with a non-success status, or the
\* transport fails before the response is read to its end, the sequence of
\* send_message holds exactly one error event, which is its last element (no
\* message, reasoning, tool or usage event follows it) and carries the status
\* and body or the description of the fault; the call made one request to the
\* agent host.
C11_OneErrorThenNothing ==
    \A r \in Reqs :
        (req[r].agent_calls # {} /\ ~HostCompletes(req[r].host))
        => LET cs == req[r].chunks
           IN  /\ Len(ErrorChunks(cs)) = 1
               /\ cs[Len(cs)].type = "error"
               /\ cs[Len(cs)].content =
                      (IF req[r].host.status # 200
                       THEN "Letta API error " \o ToString(req[r].host.status)
                            \o ": " \o req[r].host.body
                       ELSE "ReadError")
               /\ req[r].host_requests = Cardinality(req[r].agent_calls)

\* C11, witness: the agent host answered 500 with the body "boom", and the
\* relay has handled the one event of the sequence.
C11_Witness ==
    \E r \in Reqs :
        /\ req[r].agent_calls # {}
        /\ ~InTurn(r)
        /\ req[r].host.status = 500
        /\ req[r].chunks = <<ErrorChunk("Letta API error 500: boom")>>
        /\ req[r].host_requests = 1

\* The usage payload observed in a sequence: that of its last usage event
\* before the terminal event, and zero tokens at zero cost when there is none.
ObservedUsage(cs) ==
    LET seen == UsageChunks(UpToTerminal(cs))
    IN  IF seen = <<>> THEN Usage(0, 0) ELSE seen[Len(seen)].usage_stats

\* C12: the assistant row and the ledger increment of a turn record the
\* token count and the cost of the usage payload observed in the sequence of
\* that turn, and zero when the sequence held no usage event, whether the
\* sequence ended with done or with error.
C12_RecordsObservedUsage ==
    \A r \in Reqs :
        req[r].agent_calls # {}
        => LET usage == ObservedUsage(req[r].chunks)
               rows == AssistantRows(r)
               calls == LedgerCallsBy(r)
           IN  /\ \A i \in DOMAIN rows :
                      rows[i].tokens_used = usage.total_tokens /\ rows[i].cost = usage.cost
               /\ \A i \in DOMAIN calls :
                      calls[i].tokens_used = usage.total_tokens /\ calls[i].cost = usage.cost

\* The sum of a numeric column over the rows of a table; a null counts zero.
RECURSIVE SumColumn(_, _)
SumColumn(rows, column) ==
    IF rows = <<>> THEN 0
    ELSE (IF Head(rows)[column] = NoNumber THEN 0 ELSE Head(rows)[column])
         + SumColumn(Tail(rows), column)

RowsOf(table, u) == SelectSeq(table, LAMBDA row : row.user_id = u)

\* C13: whenever no turn of a user is in progress, the total_tokens of the
\* user's ledger entries sum to the tokens_used of the user's persisted
\* messages, and the total_cost to their cost, whatever turns were made and
\* whichever of their agent calls and datastore writes failed.
C13_LedgerMatchesMessages ==
    \A u \in Users :
        (\A r \in Reqs : InTurn(r) => req[r].user # u)
        => /\ SumColumn(RowsOf(usage_metrics, u), "total_tokens")
              = SumColumn(RowsOf(messages, u), "tokens_used")
           /\ SumColumn(RowsOf(usage_metrics, u), "total_cost")
              = SumColumn(RowsOf(messages, u), "cost")

\* C14: a proxy call that arrives after a user's billing key was rotated
\* forwards, for that user's agent reference, the key the gateway issued in
\* the rotation (one it has issued to the user and had not invalidated when
\* the call arrived) and never an invalidated key.
C14_ForwardsRotatedCredential ==
    \A i \in DOMAIN gateway_calls :
        LET g == gateway_calls[i]
            owner == OwnerOf(g.agent_id)
        IN  (KnownAgent(g.agent_id) /\ gateway_keys.issued[owner] \cap g.revoked # {})
            => /\ \A k \in g.revoked : g.authorization # "Bearer " \o k
               /\ \E k \in gateway_keys.issued[owner] \ g.revoked :
                      g.authorization = "Bearer " \o k

\* The payloads of the outbound messages sent on the connection of request r
\* since the agent was called for its current turn.
TurnWire(r) ==
    [i \in 1 .. Len(req[r].wire) - req[r].mark |-> req[r].wire[req[r].mark + i].data]

\* The errors the socket handler sends of its own, outside any sequence.
HandlerErrors == {ErrorChunk(DatastoreError), ErrorChunk("Empty message")}

\* C15: on the socket, while the sequence of a turn is relayed the outbound
\* messages of the turn are exactly the events pulled so far, one message
\* per event and in the order yielded; once the sequence has ended they are
\* the events up to and including its first done or error, and whatever the
\* handler sends after them is none of the sequence's events.
C15_SocketRelaysEachEvent ==
    \A r \in Reqs :
        (req[r].transport = "ws" /\ req[r].agent_calls # {})
        => LET sent == TurnWire(r)
               relayed == UpToTerminal(req[r].chunks)
           IN  IF req[r].pc = "stream"
               THEN sent = SubSeq(req[r].chunks, 1, req[r].pos - 1)
               ELSE /\ Len(sent) >= Len(relayed)
                    /\ SubSeq(sent, 1, Len(relayed)) = relayed
                    /\ \A i \in Len(relayed) + 1 .. Len(sent) : sent[i] \in HandlerErrors

\* C15, witness: a socket turn relayed a reasoning event, a message event
\* and the done event, three outbound messages in that order.
C15_Witness ==
    \E r \in Reqs :
        /\ req[r].transport = "ws" /\ req[r].agent_calls # {}
        /\ req[r].pc # "stream"
        /\ Len(TurnWire(r)) = 3
        /\ TypesOf(TurnWire(r)) = <<"reasoning", "message", "done">>

\* The text of a turn as its own events give it: the text of the done event
\* when non-empty, else the concatenation of the message contents.
TurnText(cs) ==
    LET up == UpToTerminal(cs)
        last == up[Len(up)]
    IN  IF last.type = "done" /\ Truthy(last.content) THEN last.content
        ELSE MessageText(up, Len(up))

\* The usage payloads a turn's own events carry, and the absent one.
TurnUsages(cs) == {NoUsage} \cup {cs[i].usage_stats : i \in DOMAIN cs}

\* The steps of a socket turn from the agent call on.
SocketTurnSteps == {"stream", "save_agent", "usage_read", "usage_write"}

\* C16, state part: the assistant row and the ledger increment written for
\* the current turn of a socket connection hold the text and a usage payload
\* of that turn's own events, whatever the earlier turns on the connection
\* left behind.
C16_TurnOwnsItsRecord ==
    \A r \in Reqs :
        (req[r].transport = "ws" /\ req[r].inbound \in req[r].agent_calls)
        => /\ \A i \in DOMAIN messages :
                  (/\ messages[i].by = r /\ messages[i].turn = req[r].inbound
                   /\ messages[i].role = "assistant")
                  => /\ messages[i].content = TurnText(req[r].chunks)
                     /\ \E u \in TurnUsages(req[r].chunks) :
                            messages[i].tokens_used = TokensUsed(u)
           /\ \A i \in DOMAIN ledger_calls :
                  (ledger_calls[i].by = r /\ ledger_calls[i].turn = req[r].inbound)
                  => \E u \in TurnUsages(req[r].chunks) :
                         /\ ledger_calls[i].tokens_used = TokensUsed(u)
                         /\ ledger_calls[i].cost = CostOf(u)

\* C16, step part: a socket turn that leaves its steps, on done, on an error
\* event or on an exception raised in them, goes back to the receive of the
\* same connection.
C16_TurnEndsInReceive ==
    \A r \in Reqs :
        (/\ req[r].transport = "ws"
         /\ req[r].pc \in SocketTurnSteps
         /\ req'[r].pc \notin SocketTurnSteps)
        => req'[r].pc = "receive"

\* C16: after a socket turn ends the handler waits for the next inbound
\* message of the same connection, and what is persisted for a turn comes
\* from that turn's own events only.
C16_NextTurnStartsEmpty == [](C16_TurnOwnsItsRecord) /\ [][C16_TurnEndsInReceive]_vars

\* C16, witness: on one connection a turn recorded text with 12 tokens, and
\* the next turn, ended by an error event after the message "Hel", recorded
\* "Hel" with no tokens.
C16_Witness ==
    \E r \in Reqs :
        /\ req[r].transport = "ws" /\ req[r].pc = "receive" /\ req[r].inbound = 2
        /\ TypesOf(req[r].chunks) = <<"message", "error">>
        /\ \E i, j \in DOMAIN messages :
              /\ messages[i].by = r /\ messages[i].turn = 1 /\ messages[i].tokens_used = 12
              /\ messages[j].by = r /\ messages[j].turn = 2
              /\ messages[j].role = "assistant"
              /\ messages[j].content = "Hel" /\ messages[j].tokens_used = 0

\* The sequence of the last agent call of request r ends with an error event.
EndsWithError(r) ==
    /\ req[r].agent_calls # {}
    /\ req[r].chunks[Len(UpToTerminal(req[r].chunks))].type = "error"

\* C17: a buffered turn whose sequence holds an error event before any done
\* is answered with one failure response: status 500, a detail made of the
\* error event's content, no agent_response, no message and no usage; it is
\* never answered with a success response.
C17_BufferedErrorFailsWhole ==
    \A r \in Reqs :
        (req[r].transport = "buffered" /\ req[r].pc = "done" /\ EndsWithError(r))
        => LET error == req[r].chunks[Len(UpToTerminal(req[r].chunks))]
           IN  req[r].response =
                   Failure(500, "Failed to process message: 500: Agent error: "
                                \o error.content)

\* C17, witness: a buffered turn whose sequence is the message "Hel" and
\* then an error event was answered 500.
C17_Witness ==
    \E r \in Reqs :
        /\ req[r].transport = "buffered" /\ req[r].pc = "done" /\ EndsWithError(r)
        /\ Len(req[r].chunks) = 2
        /\ req[r].chunks[1] = Chunk("message", "Hel", "Hel", NoUsage)
        /\ req[r].response.status = 500

\* C18: in a server-sent response no wire event follows a relayed done or
\* error event, whatever fails after the relay.
C18_TerminalIsLastWireEvent ==
    \A r \in Reqs :
        req[r].transport = "sse"
        => \A i \in 1 .. Len(req[r].wire) - 1 :
               ~(/\ req[r].wire[i].event = "message"
                 /\ req[r].wire[i].data.type \in {"done", "error"})

\* The assistant row of the turn of request r is saved, the turn is over, and
\* its update_usage_metrics call did not return.
LedgerUpdateFailed(r) ==
    /\ req[r].agent_calls # {}
    /\ ~InTurn(r)
    /\ Len(AssistantRows(r)) = 1
    /\ LedgerCallsBy(r) = <<>>

\* C19: a turn whose ledger update failed gives the caller what a turn whose
\* update succeeded gives: the success response with the text, the usage and
\* the message (buffered), or the events of the sequence up to its terminal
\* event and nothing more (server-sent, socket).
C19_LedgerFailureNotSurfaced ==
    \A r \in Reqs :
        LedgerUpdateFailed(r)
        => IF req[r].transport = "buffered"
           THEN req[r].response = [status |-> 200, detail |-> "",
                                   agent_response |-> req[r].full_response,
                                   usage_stats |-> req[r].usage_stats,
                                   message |-> req[r].agent_message]
           ELSE TurnWire(r) = UpToTerminal(req[r].chunks)

\* The rows of a role written for turn t of request r, and the ledger
\* updates made for it.
TurnRows(r, t, role) ==
    SelectSeq(messages, LAMBDA row : row.by = r /\ row.turn = t /\ row.role = role)

TurnCalls(r, t) == SelectSeq(ledger_calls, LAMBDA c : c.by = r /\ c.turn = t)

Forwarded(op, stream) ==
    /\ proxy.pc = "done"
    /\ proxy.outcome.kind # "none"
    /\ proxy.op = op
    /\ op = "completions" => proxy.stream = stream

\* C21: a buffered completions call is answered with the gateway's status S
\* and the gateway's body when the gateway answers a non-success status S,
\* with 504 "LiteLLM timeout" when the gateway times out, and with 502
\* "LiteLLM connection error" on any other transport fault; none of the
\* three is answered as the handler's generic "Proxy error" 500.
C21_BufferedFailuresSurfaced ==
    Forwarded("completions", FALSE)
    => LET g == proxy.outcome
       IN  /\ g.kind = "status"
              => /\ proxy.status = g.status
                 /\ proxy.detail = "LiteLLM error: " \o Join(ResponseText(g.chunks))
           /\ g.kind = "timeout"
              => proxy.status = 504 /\ proxy.detail = "LiteLLM timeout"
           /\ g.kind = "unreachable"
              => /\ proxy.status = 502
                 /\ proxy.detail = "LiteLLM connection error: " \o g.text

\* C21, witness: the gateway answered 429 with the body "a" and the caller
\* of the buffered completions call got 429 with that body.
C21_Witness ==
    /\ Forwarded("completions", FALSE)
    /\ proxy.outcome.kind = "status" /\ proxy.outcome.status = 429
    /\ proxy.status = 429
    /\ proxy.detail = "LiteLLM error: a"

\* What the caller of a proxy call sees of its answer.
Visible(p) == <<p.status, p.detail, p.body>>

FailureKinds == {"status", "timeout", "unreachable"}

\* C22: in every operation and mode, a gateway rejection (of any status), an
\* upstream timeout and an upstream-unreachable fault are answered with
\* pairwise different caller-visible outcomes: whatever two outcomes of
\* different failure kinds the gateway may have for the call about to be
\* forwarded, the caller would see different answers.
C22_FailureKindsDistinguishable ==
    proxy.pc = "forward"
    => \A g1, g2 \in {g \in GatewayOutcomes : g.kind \in FailureKinds} :
           g1.kind # g2.kind
           => Visible(ForwardAnswer(proxy, g1)) # Visible(ForwardAnswer(proxy, g2))

\* C23: a streamed completions call whose gateway stream completes without
\* fault hands the caller exactly the chunks the gateway sent: the same
\* bytes in the same chunks, in arrival order, nothing dropped, merged,
\* altered or added.
C23_StreamRelayedVerbatim ==
    (Forwarded("completions", TRUE) /\ proxy.outcome.kind = "ok")
    => proxy.body = proxy.outcome.chunks

\* The lines of a body that send_message reads: those before the sentinel.
RECURSIVE LinesRead(_)
LinesRead(lines) ==
    IF lines = <<>> \/ Head(lines).kind = "sentinel" THEN <<>>
    ELSE <<Head(lines)>> \o LinesRead(Tail(lines))

\* The record kinds of the agent host and the Stream Event variant of each.
RecordVariants ==
    {<<"assistant_message", "message">>, <<"reasoning_message", "reasoning">>,
     <<"tool_call_message", "tool_call">>, <<"tool_return_message", "tool_return">>,
     <<"usage_statistics", "usage">>}

CountType(cs, type) == Len(SelectSeq(cs, LAMBDA c : c.type = type))

\* The records of a kind among the lines read; a text record counts when it
\* carries text.
CountRecords(lines, message_type) ==
    Len(SelectSeq(LinesRead(lines),
                  LAMBDA l : /\ l.kind = "json" /\ l.message_type = message_type
                             /\ (message_type \in {"assistant_message", "reasoning_message"}
                                 => Truthy(l.text))))

\* C24: when the response of the agent host is read to its end, the
\* sequence of send_message holds one event of the corresponding variant
\* for every record of kind assistant text, reasoning, tool call, tool
\* result and usage totals.
C24_EveryRecordKindMapped ==
    \A r \in Reqs :
        (req[r].agent_calls # {} /\ HostCompletes(req[r].host))
        => \A kv \in RecordVariants :
               CountType(req[r].chunks, kv[2]) = CountRecords(req[r].host.lines, kv[1])

\* A line that is skipped: malformed JSON, or a discriminant outside the union.
Skipped(line) == line = MalformedLine \/ line = UnknownLine

\* The lines read, without the skipped ones.
WithoutSkipped(lines) == SelectSeq(LinesRead(lines), LAMBDA l : ~Skipped(l))

\* C25: malformed lines and records of an unrecognized discriminant yield no
\* event and change nothing else: the sequence for a body read without fault
\* is the sequence for the same body without those lines and without the
\* lines after the sentinel, so every other record before the sentinel
\* yields its event, in order, and none after the sentinel does.
C25_SkippedLinesChangeNothing ==
    \A r \in Reqs :
        (req[r].agent_calls # {} /\ req[r].host.status = 200 /\ req[r].host.fault = NoNumber)
        => /\ req[r].chunks
              = SendMessage(HostResponse(200, "", WithoutSkipped(req[r].host.lines), NoNumber))
           /\ Len(req[r].chunks)
              = 1 + Cardinality({i \in DOMAIN WithoutSkipped(req[r].host.lines) :
                                   LineEvent(WithoutSkipped(req[r].host.lines)[i], "") # <<>>})

\* C25, witness: a malformed line followed by the assistant text "Hel"
\* yields the message event and the done event.
C25_Witness ==
    \E r \in Reqs :
        /\ req[r].agent_calls # {}
        /\ req[r].host.lines = <<MalformedLine, AssistantLine("Hel")>>
        /\ req[r].host.fault = NoNumber
        /\ TypesOf(req[r].chunks) = <<"message", "done">>
        /\ req[r].chunks[1].content = "Hel"

\* C26: in a sequence of send_message every message event carries in
\* data.full_response the concatenation of the message contents up to and
\* including its own, and the done event carries the concatenation of all
\* the message contents before it and the payload of the last usage event
\* before it, or null when there was none.
C26_DoneCarriesTextAndUsage ==
    \A r \in Reqs :
        req[r].agent_calls # {}
        => LET cs == req[r].chunks
               last == cs[Len(cs)]
               seen == UsageChunks(cs)
           IN  /\ \A i \in DOMAIN cs :
                      cs[i].type = "message" => cs[i].full_response = MessageText(cs, i)
               /\ last.type = "done"
                  => /\ last.content = MessageText(cs, Len(cs) - 1)
                     /\ last.full_response = MessageText(cs, Len(cs) - 1)
                     /\ last.usage_stats
                        = (IF seen = <<>> THEN NoUsage ELSE seen[Len(seen)].usage_stats)

\* C26, witness: the done event after the message "Hel" and a usage event
\* carries "Hel" and the payload of the usage event.
C26_Witness ==
    \E r \in Reqs :
        /\ req[r].agent_calls # {}
        /\ TypesOf(req[r].chunks) = <<"message", "usage", "done">>
        /\ req[r].chunks[3].content = "Hel"
        /\ req[r].chunks[3].usage_stats = Usage(12, 2)

\* No write makes a stored total of a ledger entry smaller.
LedgerWriteIncreases ==
    \A i \in DOMAIN usage_metrics :
        /\ usage_metrics'[i].total_messages >= usage_metrics[i].total_messages
        /\ usage_metrics'[i].total_tokens >= usage_metrics[i].total_tokens
        /\ usage_metrics'[i].total_cost >= usage_metrics[i].total_cost

\* C27: a ledger entry is only ever increased: with token counts and costs
\* that are not negative, no step of any interleaving of ledger updates
\* leaves total_messages, total_tokens or total_cost of an entry smaller
\* than it was.
C27_LedgerOnlyIncreases == [][LedgerWriteIncreases]_vars

\* C28: the ledger table never holds two rows for one user and one day, also
\* when two turns of a user make their first ledger write of the day at the
\* same time.
C28_OneRowPerUserAndDay ==
    \A i, j \in DOMAIN usage_metrics :
        (/\ usage_metrics[i].user_id = usage_metrics[j].user_id
         /\ usage_metrics[i].date = usage_metrics[j].date)
        => i = j

\* C29: whenever no turn of a user is in progress, the total_messages of the
\* user's ledger entries sum to the number of the user's persisted messages,
\* user rows and assistant rows, also after turns in which the agent
\* returned an error or no text.
C29_MessageCountMatches ==
    \A u \in Users :
        (\A r \in Reqs : InTurn(r) => req[r].user # u)
        => SumColumn(RowsOf(usage_metrics, u), "total_messages") = Len(RowsOf(messages, u))

\* C30: when the client of a socket or server-sent turn goes away while the
\* sequence is relayed and message text has been accumulated, that text is
\* still written as the assistant row of the turn and the ledger update of
\* the turn is still made.
C30_DisconnectKeepsAccumulated ==
    \A r \in Reqs :
        (req[r].pc = "aborted" /\ Truthy(req[r].full_response))
        => /\ \E i \in DOMAIN messages :
                  /\ messages[i].by = r /\ messages[i].turn = req[r].inbound
                  /\ messages[i].role = "assistant"
                  /\ messages[i].content = req[r].full_response
           /\ TurnCalls(r, req[r].inbound) # <<>>

\* C31: under any interleaving of the turns of two clients, of one user or
\* of two, the text a request has accumulated while its sequence is relayed
\* is the concatenation of the message events it has pulled from its own
\* sequence, and the assistant row and the ledger increment it writes hold
\* the text and a usage payload of its own sequence.
C31_NoSharedRelayState ==
    \A r \in Reqs :
        req[r].agent_calls # {}
        => /\ req[r].pc = "stream"
              => /\ req[r].full_response = MessageText(req[r].chunks, req[r].pos - 1)
                 /\ req[r].usage_stats = NoUsage
           /\ \A i \in DOMAIN messages :
                  (/\ messages[i].by = r /\ messages[i].turn = req[r].inbound
                   /\ messages[i].role = "assistant")
                  => /\ messages[i].content = TurnText(req[r].chunks)
                     /\ messages[i].user_id = req[r].user
                     /\ \E u \in TurnUsages(req[r].chunks) :
                            messages[i].tokens_used = TokensUsed(u)
           /\ \A i \in DOMAIN ledger_calls :
                  (ledger_calls[i].by = r /\ ledger_calls[i].turn = req[r].inbound)
                  => /\ ledger_calls[i].user_id = req[r].user
                     /\ \E u \in TurnUsages(req[r].chunks) :
                            /\ ledger_calls[i].tokens_used = TokensUsed(u)
                            /\ ledger_calls[i].cost = CostOf(u)

\* C31, witness: two turns of u1 were relayed at the same time; one wrote
\* the assistant row "Hel" with 12 tokens, the other "lo" with 5.
C31_Witness ==
    /\ \A r \in Reqs : req[r].user = "u1" /\ req[r].agent_calls # {} /\ ~InTurn(r)
    /\ \E i, j \in DOMAIN messages :
          /\ messages[i].by = 1 /\ messages[i].content = "Hel" /\ messages[i].tokens_used = 12
          /\ messages[j].by = 2 /\ messages[j].content = "lo" /\ messages[j].tokens_used = 5

\* The texts str(e) of the exceptions raised inside the handlers.
InternalTexts ==
    {DatastoreError, ValidationError}
    \cup ((ExceptionTexts("timeout") \cup ExceptionTexts("unreachable")) \ {""})

\* The fixed texts the handlers put before str(e).
DetailPrefixes ==
    {"", "Failed to process message: ", "Failed to start stream: ", "Proxy error: ",
     "LiteLLM connection error: ", "Embeddings proxy error: "}

CarriesInternalText(detail) ==
    \E p \in DetailPrefixes, t \in InternalTexts : detail = p \o t

\* C32: when the environment is not development, no failure response of the
\* relay endpoints and none of the reverse proxy has a detail that carries
\* the text of an internal exception.
C32_NoInternalTextOutsideDevelopment ==
    environment # "development"
    => /\ \A r \in Reqs :
              req[r].response.status >= 400
              => ~CarriesInternalText(req[r].response.detail)
       /\ proxy.status >= 400 => ~CarriesInternalText(proxy.detail)

C34_QueryWithinBounds ==
    \A r \in Reqs :
        \A i \in DOMAIN req[r].history.queries :
            LET query == req[r].history.queries[i]
            IN  query.page >= 1 /\ query.page_size >= 1 /\ query.page_size <= 100

\* The client of request r sent a page of at least 1 and a page_size of 1 to
\* 100, and its last request was answered.
PageAnswered(r) ==
    /\ req[r].history.requests > 0
    /\ req[r].history.status = 200
    /\ req[r].history.page_in >= 1
    /\ req[r].history.page_size_in >= 1 /\ req[r].history.page_size_in <= 100

\* C39: over an unchanging table, for a page of at least 1 and a page_size
\* of 1 to 100, has_next is true exactly when the user has messages after
\* the returned window; a client that starts at page 1 and goes on while
\* has_next has received, in order and without repetition, the first
\* messages of its history, has received all of them once has_next is
\* false, and has made no more requests than it has messages (one, when it
\* has none).
C39_PagingReturnsEachMessageOnce ==
    \A r \in Reqs :
        LET h == req[r].history
            own == OrderedIds(messages, req[r].user)
        IN  PageAnswered(r)
            => /\ h.has_next = (\E i \in DOMAIN own : i > h.page * h.page_size)
               /\ h.page_in = 1
                  => /\ Len(h.fetched) <= Len(own)
                     /\ h.fetched = SubSeq(own, 1, Len(h.fetched))
                     /\ ~h.has_next => h.fetched = own
                     /\ h.requests <= (IF Len(own) = 0 THEN 1 ELSE Len(own))
                     /\ h.requests < MaxPages

\* C39, witness: u1 has three messages and read them with page_size 2, in
\* two requests starting at page 1; the second answer had has_next false.
C39_Witness ==
    /\ PageAnswered(1)
    /\ req[1].history.page_in = 1 /\ req[1].history.page_size_in = 2
    /\ req[1].history.requests = 2
    /\ ~req[1].history.has_next
    /\ Len(req[1].history.fetched) = 3
    /\ req[1].history.fetched = OrderedIds(messages, "u1")

\* Request r has just received an inbound socket message that is empty or
\* has no message key.
EmptyTurnReceived(r) ==
    /\ req[r].transport = "ws"
    /\ req'[r].inbound = req[r].inbound + 1
    /\ req'[r].content = ""

\* C35, step part: the step that receives an empty inbound message sends
\* exactly one message, the error "Empty message", calls no agent, writes no
\* row and no ledger entry, and leaves the handler waiting for the next
\* inbound message.
C35_EmptyTurnStep ==
    \A r \in Reqs :
        EmptyTurnReceived(r)
        => /\ req'[r].wire = Append(req[r].wire,
                                    WireEvent("json", ErrorChunk("Empty message")))
           /\ req'[r].pc = "receive"
           /\ req'[r].agent_calls = req[r].agent_calls
           /\ req'[r].host_requests = req[r].host_requests
           /\ messages' = messages
           /\ usage_metrics' = usage_metrics
           /\ ledger_calls' = ledger_calls

\* C35, state part: while the last inbound message of a connection is an
\* empty one, that turn has no agent call, no row and no ledger update.
C35_EmptyTurnLeavesNothing ==
    \A r \in Reqs :
        (req[r].transport = "ws" /\ req[r].inbound > 0 /\ req[r].content = "")
        => /\ req[r].inbound \notin req[r].agent_calls
           /\ TurnRows(r, req[r].inbound, "user") = <<>>
           /\ TurnRows(r, req[r].inbound, "assistant") = <<>>
           /\ TurnCalls(r, req[r].inbound) = <<>>
           /\ req[r].pc \in {"receive", "closed"}

\* C35: an empty or missing inbound socket message yields one error
\* message and nothing else, and the connection stays open for the next
\* turn.
C35_EmptyTurnOnlyAnswersError ==
    [](C35_EmptyTurnLeavesNothing) /\ [][C35_EmptyTurnStep]_vars

\* C35, witness: the first inbound message of a connection was empty and
\* was answered with the error; the second was a turn that called the
\* agent and wrote its assistant row.
C35_Witness ==
    \E r \in Reqs :
        /\ req[r].transport = "ws" /\ req[r].inbound = 2
        /\ req[r].agent_calls = {2}
        /\ req[r].wire[1] = WireEvent("json", ErrorChunk("Empty message"))
        /\ TurnRows(r, 1, "user") = <<>>
        /\ Len(TurnRows(r, 2, "assistant")) = 1

\* C36: a POST /chat/message or POST /chat/stream of a user without agent
\* reference is answered 400 "User agent not found", writes no message and
\* calls no agent.
C36_NoAgentAnswered400 ==
    \A r \in Reqs :
        (/\ req[r].transport \in {"buffered", "sse"}
         /\ req[r].pc = "done"
         /\ ~Truthy(user_profiles[req[r].user].letta_agent_id))
        => /\ req[r].response.status = 400
           /\ req[r].response.detail = "User agent not found"
           /\ req[r].agent_calls = {}
           /\ \A i \in DOMAIN messages : messages[i].by # r

\* C37: every request sent to the Billing Gateway, for completions and for
\* embeddings, is for a user whose profile stores a credential.
C37_ForwardsOnlyStoredCredential ==
    \A i \in DOMAIN gateway_calls :
        /\ KnownAgent(gateway_calls[i].agent_id)
        /\ Truthy(user_profiles[OwnerOf(gateway_calls[i].agent_id)].litellm_key)
        /\ user_profiles[OwnerOf(gateway_calls[i].agent_id)].litellm_key # None

\* The sequence of the buffered turn of request r ended with a done event
\* and held no text.
EndedWithoutText(r) ==
    /\ req[r].transport = "buffered" /\ req[r].pc = "done"
    /\ req[r].agent_calls # {}
    /\ req[r].pos <= Len(req[r].chunks)
    /\ req[r].chunks[req[r].pos].type = "done"
    /\ TurnText(req[r].chunks) = ""

\* C38: a buffered turn whose sequence ends with done and without any text
\* is answered with the failure "No response from agent"; it has no
\* assistant row and no ledger update, and its user row is in the table.
C38_NoTextFailsTurn ==
    \A r \in Reqs :
        EndedWithoutText(r)
        => /\ req[r].response =
                  Failure(500, "Failed to process message: 500: No response from agent")
           /\ TurnRows(r, req[r].inbound, "assistant") = <<>>
           /\ TurnCalls(r, req[r].inbound) = <<>>
           /\ Len(TurnRows(r, req[r].inbound, "user")) = 1
           /\ TurnRows(r, req[r].inbound, "user")[1].content = req[r].content

\* C38, witness: the agent host answered with a usage record only; the
\* buffered turn failed and the table holds its user message alone.
C38_Witness ==
    \E r \in Reqs :
        /\ EndedWithoutText(r)
        /\ TypesOf(req[r].chunks) = <<"usage", "done">>
        /\ req[r].response.status = 500
        /\ Len(messages) = 1 /\ messages[1].role = "user"

====
